---- MODULE Spec2Model ----
(***************************************************************************)
(* yggman: control plane of a Yggdrasil mesh.  The model covers the node   *)
(* directory (NodeManager over the database), the listen template          *)
(* (SettingsManager), the connection registry with its broadcast           *)
(* (websocket_state.rs), the server side of the agent session              *)
(* (modules/websocket.rs) and the REST handlers that mutate the directory  *)
(* (modules/web.rs).                                                       *)
(*                                                                         *)
(* Strings that the code parses (listen URIs, peer URIs, keys, addresses)  *)
(* are sequences of one-character strings, so that split/contains/format   *)
(* are computed as the code computes them.  Node names are only compared,  *)
(* and are TLA+ strings.                                                   *)
(***************************************************************************)
EXTENDS Integers, Sequences, FiniteSets, TLC

(***************************************************************************)
(* Bounds of the model.                                                    *)
(***************************************************************************)
\* number of agent connections (each handle_agent_socket runs once)
NumSessions == 2
\* agent frames and REST requests handled, over all tasks
MaxEvents == 2
\* node records ever created (ids and keys are fresh per record)
MaxNodes == 2
\* database operations that fail
MaxDbFailures == 1
\* capacity of a session's outbound channel in the model; the code's
\* mpsc::channel(100) (websocket.rs:50) behaves the same way at any capacity
ChannelCapacity == 1
\* the synthesis is checked on directories of up to MaxSynthNodes nodes, each
\* with up to MaxListen listen endpoints and up to MaxAddrs addresses
MaxSynthNodes == 3
MaxListen == 2
MaxAddrs == 2
\* the conversion of listen URIs is checked on directories of up to
\* MaxParseNodes nodes, of which the first ParseVariedRows draw their listen
\* list from every form of listen string
MaxParseNodes == 3
ParseVariedRows == 2
\* the agent's history counters stop counting at MaxCount
MaxCount == 2

(***************************************************************************)
(* Strings as sequences of characters.                                     *)
(***************************************************************************)
\* str.contains(pat) at a given position
MatchAt(s, pat, i) ==
    /\ i + Len(pat) - 1 <= Len(s)
    /\ \A k \in 1..Len(pat) : s[i + k - 1] = pat[k]

\* str.contains(pat)
Contains(s, pat) == \E i \in 1..Len(s) : MatchAt(s, pat, i)

\* position of the first match of pat in s (s contains pat)
FirstMatch(s, pat) ==
    CHOOSE i \in 1..Len(s) :
        MatchAt(s, pat, i) /\ \A j \in 1..(i - 1) : ~MatchAt(s, pat, j)

\* str.split(pat).collect::<Vec<_>>(): non-overlapping matches, left to right
RECURSIVE Split(_, _)
Split(s, pat) ==
    IF ~Contains(s, pat)
    THEN <<s>>
    ELSE LET i == FirstMatch(s, pat)
         IN  <<SubSeq(s, 1, i - 1)>> \o Split(SubSeq(s, i + Len(pat), Len(s)), pat)

\* the absent value of an Option<String>, Option<Node> (never a value of Some)
None == <<"<none>">>

\* iterator.nth(1): the second item, when there is one
Nth1(parts) == IF Len(parts) >= 2 THEN parts[2] ELSE None

SchemeSep == <<":", "/", "/">>
UnixScheme == <<"u", "n", "i", "x", ":", "/", "/">>
BracketColon == <<"]", ":">>
Colon == <<":">>
QMark == <<"?">>
KeyParam == <<"?", "k", "e", "y", "=">>
Amp == <<"&">>
Localhost == <<"1", "2", "7", ".", "0", ".", "0", ".", "1">>

(***************************************************************************)
(* node_manager.rs: convert_listen_to_peer_with_address                    *)
(***************************************************************************)
convert_listen_to_peer_with_address(listen_addr, public_key, address) ==
    IF Contains(listen_addr, UnixScheme) THEN None
    ELSE
    LET parts == Split(listen_addr, SchemeSep) IN
    IF Len(parts) # 2 THEN None
    ELSE
    LET protocol == parts[1]
        addr_part == parts[2]
        port == IF Contains(addr_part, BracketColon)
                THEN Nth1(Split(addr_part, BracketColon))
                ELSE Nth1(Split(addr_part, Colon))
    IN
    IF port = None THEN None
    ELSE
    LET hasParams == Contains(port, QMark)
        pparts == Split(port, QMark)
        port_clean == IF hasParams THEN pparts[1] ELSE port
        base == protocol \o SchemeSep \o address \o Colon \o port_clean
                    \o KeyParam \o public_key
    IN  IF hasParams THEN base \o Amp \o pparts[2] ELSE base

(***************************************************************************)
(* node_manager.rs: NodeManager::generate_configs over a list of nodes     *)
(***************************************************************************)
\* peers built for the reported addresses only
addresses_to_use_NoFallback(other_node) == other_node.addresses

\* the addresses peers are built for: 127.0.0.1 when the node reports none
addresses_to_use(other_node) ==
    IF other_node.addresses = <<>> THEN <<Localhost>> ELSE other_node.addresses

\* the inner loop over addresses, for one listen endpoint of one other node
RECURSIVE PeersForListen(_, _, _)
PeersForListen(listen_addr, public_key, addrs) ==
    IF addrs = <<>> THEN <<>>
    ELSE LET p == convert_listen_to_peer_with_address(listen_addr, public_key, Head(addrs))
         IN  (IF p = None THEN <<>> ELSE <<p>>)
                \o PeersForListen(listen_addr, public_key, Tail(addrs))

\* the loop over the listen endpoints of one other node
RECURSIVE PeersForNode(_, _)
PeersForNode(other_node, listens) ==
    IF listens = <<>> THEN <<>>
    ELSE PeersForListen(Head(listens), other_node.public_key, addresses_to_use(other_node))
            \o PeersForNode(other_node, Tail(listens))

\* the loop over the other nodes
RECURSIVE PeersOf(_, _)
PeersOf(node, others) ==
    IF others = <<>> THEN <<>>
    ELSE (IF Head(others).id # node.id
          THEN PeersForNode(Head(others), Head(others).listen)
          ELSE <<>>)
            \o PeersOf(node, Tail(others))

\* all_public_keys.retain(|k| k != &node.public_key)
RECURSIVE Retain(_, _)
Retain(keys, own) ==
    IF keys = <<>> THEN <<>>
    ELSE (IF Head(keys) # own THEN <<Head(keys)>> ELSE <<>>) \o Retain(Tail(keys), own)

\* the key list without the first row's key
all_public_keys_SkipFirst(nodes) ==
    [i \in 1..(Len(nodes) - 1) |-> nodes[i + 1].public_key]

all_public_keys(nodes) == [i \in 1..Len(nodes) |-> nodes[i].public_key]

\* a config whose allowed_public_keys keeps the node's own key
ConfigFor_KeepsOwnKey(node, nodes) ==
    [private_key |-> node.private_key,
     listen |-> node.listen,
     peers |-> PeersOf(node, nodes),
     allowed_public_keys |-> all_public_keys(nodes)]

\* the YggdrasilConfig built for one node
ConfigFor(node, nodes) ==
    [private_key |-> node.private_key,
     listen |-> node.listen,
     peers |-> PeersOf(node, nodes),
     allowed_public_keys |-> Retain(all_public_keys(nodes), node.public_key)]

\* the map node id -> YggdrasilConfig (a later insert of the same id wins)
generate_configs(nodes) ==
    [id \in {nodes[i].id : i \in 1..Len(nodes)} |->
        LET last == CHOOSE i \in 1..Len(nodes) :
                        nodes[i].id = id /\ \A j \in (i + 1)..Len(nodes) : nodes[j].id # id
        IN  ConfigFor(nodes[last], nodes)]

(***************************************************************************)
(* Values the model draws inputs from.                                     *)
(***************************************************************************)
\* "tcp://0.0.0.0:9001": the default template and the fallback of a failed read
DefaultListen == <<"t", "c", "p", ":", "/", "/", "0", ".", "0", ".", "0", ".", "0", ":", "9", "0", "0", "1">>
DefaultTemplate == <<DefaultListen>>
\* "tls://[::]:2"
OtherListen == <<"t", "l", "s", ":", "/", "/", "[", ":", ":", "]", ":", "2">>
OtherTemplate == <<OtherListen>>
TemplateValues == {DefaultTemplate, OtherTemplate}
\* "a1": an address an agent reports
Addr1 == <<"a", "1">>
AddrLists == {<<>>, <<Addr1>>}
Names == {"n1", "n2"}
Digits == <<"1", "2", "3", "4", "5", "6", "7", "8", "9">>

Sessions == 1..NumSessions
\* the task serving REST requests
RestProc == 0
Procs == Sessions \cup {RestProc}
NodeIds == 1..MaxNodes

\* Option<Node>::None
NoNode == [id |-> 0, name |-> "", public_key |-> <<>>, private_key |-> <<>>,
           listen |-> <<>>, addresses |-> <<>>]

VARIABLES
    directory,  \* the nodes table, in row order: a sequence of Node records
    template,   \* the listen_template setting
    nextId,     \* how many node records were created (ids and keys are fresh)
    dbFails,    \* how many database operations failed
    registry,   \* AGENT_CONNECTIONS: node id -> the session whose tx it holds
    lock,       \* the task holding the registry's write lock, or -1
    chan,       \* per session: the messages queued in its mpsc channel
    rxOpen,     \* per session: the receiver (held by send_task) exists
    pc,         \* per task: the await point it is at
    node_id,    \* per session: the local node_id (0 is None)
    loc,        \* per task: the locals of the handler in progress
    bc,         \* per task: the locals of its broadcast in progress
    eventsLeft, \* agent frames and REST requests still to come
    lastReg,    \* history: node id -> the session that registered for it last
    configsSent,\* history: per session, how many Config replies were queued
    lastFrame,  \* per session: the kind of the last item its inbound stream yielded
    lastEnq,    \* history: per session, the last message queued in its channel
    \* agent.rs, one agent process:
    apc,          \* the await point the main task is at
    no_restart,   \* args.no_restart
    server_msg,   \* the message handle_server_message is working on
    registersSent,\* history: Register messages sent, up to MaxCount
    handled,      \* history: server messages handled on this connection, up to MaxCount
    lastEnd,      \* history: how the last run_agent ended
    lastApply,    \* history: the outcome of the last write or restart on this connection
    lastSent,     \* history: the type of the last message the agent sent
    gotConfig,    \* history: a Config was received on this connection
    artifact,     \* the Yggdrasil configuration file at ygg_config_path
    \* agent.rs, the tasks run_agent spawns and their channels:
    sysAddrs,     \* what discover_addresses returns at present
    conn,         \* run_agent is in its message loop: the receivers exist
    hbQ,          \* ticks queued in the heartbeat channel
    current,      \* current_addresses of the connection's scanner
    scanQ,        \* address lists queued in the address_scan channel
    scanPend,     \* the list the scanner's suspended send holds, or NoPend
    sentAddrs,    \* history: the addresses sent last on this connection
    orphanHb,     \* heartbeat tasks whose receiver was dropped
    orphanScan    \* scanners whose receiver was dropped, by their current_addresses

taskVars == <<sysAddrs, conn, hbQ, current, scanQ, scanPend, sentAddrs, orphanHb, orphanScan>>

agentVars == <<apc, no_restart, server_msg, registersSent, handled, lastEnd, lastApply,
               lastSent, gotConfig, artifact, taskVars>>

vars == <<directory, template, nextId, dbFails, registry, lock, chan, rxOpen,
          pc, node_id, loc, bc, eventsLeft, lastReg, configsSent, lastFrame, lastEnq,
          agentVars>>

NoLock == -1
NoLoc == [name |-> "", addresses |-> <<>>, default_listen |-> <<>>,
          node |-> NoNode, byName |-> FALSE, msg |-> [type |-> "none"]]
\* configs, todo (entries the loop has still to visit), failed_connections and
\* cur (the entry whose send is suspended) are the locals of the broadcast;
\* nodes (the rows get_all_nodes returned) and sendErr (the entries whose send
\* returned Err) record what happened
NoBc == [configs |-> <<>>, todo |-> {}, failed |-> {}, cur |-> 0,
         nodes |-> <<>>, sendErr |-> {}]

\* the agent process as main enters its loop (agent.rs:98-99)
NoMsg == [type |-> "none"]
\* no file at ygg_config_path, or one that is not JSON
NoArtifact == [json |-> FALSE, PrivateKey |-> "", Listen |-> <<>>, Peers |-> <<>>,
               AllowedPublicKeys |-> <<>>, Other |-> ""]
\* a configuration written by hand: other keys, lists and further fields
OwnArtifact == [json |-> TRUE, PrivateKey |-> "k0", Listen |-> <<"x">>, Peers |-> <<"x">>,
                AllowedPublicKeys |-> <<"x">>, Other |-> "own"]
\* the address lists discover_addresses returns in the model
AddrVecs == {<<"a">>, <<"a", "b">>, <<"b", "a">>}
NoPend == <<"none">>
\* no connection yet: no task and nothing in the channels
AgentStart(nr, file) ==
    /\ apc = "run_agent"
    /\ no_restart = nr
    /\ server_msg = NoMsg
    /\ registersSent = 0
    /\ handled = 0
    /\ lastEnd = "none"
    /\ lastApply = "none"
    /\ lastSent = "none"
    /\ gotConfig = FALSE
    /\ artifact = file
    /\ sysAddrs = <<"a">>
    /\ conn = FALSE
    /\ hbQ = 0
    /\ current = <<>>
    /\ scanQ = <<>>
    /\ scanPend = NoPend
    /\ sentAddrs = <<>>
    /\ orphanHb = 0
    /\ orphanScan = [v \in AddrVecs |-> 0]

\* the server after construction
ServerInit ==
    /\ directory = <<>>
    /\ template = DefaultTemplate
    /\ nextId = 0
    /\ dbFails = 0
    /\ registry = <<>>
    /\ lock = NoLock
    /\ chan = [s \in Sessions |-> <<>>]
    /\ rxOpen = [s \in Sessions |-> TRUE]
    /\ pc = [p \in Procs |-> "idle"]
    /\ node_id = [s \in Sessions |-> 0]
    /\ loc = [p \in Procs |-> NoLoc]
    /\ bc = [p \in Procs |-> NoBc]
    /\ eventsLeft = MaxEvents
    /\ lastReg = <<>>
    /\ configsSent = [s \in Sessions |-> 0]
    /\ lastFrame = [s \in Sessions |-> "none"]
    /\ lastEnq = [s \in Sessions |-> NoMsg]

Init == ServerInit /\ AgentStart(FALSE, NoArtifact)

(***************************************************************************)
(* The database: every operation either succeeds or fails.                 *)
(***************************************************************************)
DbCanFail == dbFails < MaxDbFailures

\* positions of the rows with a given id / name
RowsById(id) == {i \in 1..Len(directory) : directory[i].id = id}
RowsByName(name) == {i \in 1..Len(directory) : directory[i].name = name}

\* the Node record add_node builds: fresh id, fresh keypair
NewNode(k, name, listen, addresses) ==
    [id |-> k, name |-> name,
     public_key |-> <<"P", Digits[k]>>, private_key |-> <<"S", Digits[k]>>,
     listen |-> listen, addresses |-> addresses]

\* node_manager.rs add_node, on success
add_node(name, listen, addresses) ==
    Append(directory, NewNode(nextId + 1, name, listen, addresses))

\* node_manager.rs update_node, on success: the row with that id gets the
\* name, listen and addresses given; id and keys stay
update_node(id, name, listen, addresses) ==
    [i \in 1..Len(directory) |->
        IF directory[i].id = id
        THEN [directory[i] EXCEPT !.name = name, !.listen = listen,
                                  !.addresses = addresses]
        ELSE directory[i]]

\* node_manager.rs remove_node, on success
RECURSIVE WithoutId(_, _)
WithoutId(nodes, id) ==
    IF nodes = <<>> THEN <<>>
    ELSE (IF Head(nodes).id = id THEN <<>> ELSE <<Head(nodes)>>) \o WithoutId(Tail(nodes), id)

remove_node(id) == WithoutId(directory, id)

(***************************************************************************)
(* mpsc channel: tx.send(msg).await                                        *)
(***************************************************************************)
\* the send returns (Ok or Err) rather than staying suspended
SendReturns(t) == ~rxOpen[t] \/ Len(chan[t]) < ChannelCapacity
\* the send returns Ok
SendOk(t) == rxOpen[t] /\ Len(chan[t]) < ChannelCapacity
\* the channel after a send that returned
AfterSend(t, msg) == IF SendOk(t) THEN Append(chan[t], msg) ELSE chan[t]

(***************************************************************************)
(* websocket_state.rs: the registry operations                             *)
(***************************************************************************)
\* an insert that keeps the entry the map already has
register_agent_connection_KeepsFirst(id, s) == registry @@ (id :> s)

\* connections.insert(node_id, tx)
register_agent_connection(id, s) == (id :> s) @@ registry

\* connections.remove(node_id) for each id of a set
RegistryWithout(ids) == [i \in (DOMAIN registry) \ ids |-> registry[i]]

\* connections.remove(node_id)
unregister_agent_connection(id) == RegistryWithout({id})

\* an Update that leaves out the peers
UpdateOf_NoPeers(config) ==
    [type |-> "Update", listen |-> config.listen, peers |-> <<>>,
     allowed_public_keys |-> config.allowed_public_keys]

\* ServerMessage::Update built from a node's config
UpdateOf(config) ==
    [type |-> "Update", listen |-> config.listen, peers |-> config.peers,
     allowed_public_keys |-> config.allowed_public_keys]

\* the empty Update sent to the agent of a deleted node
ZeroUpdate ==
    [type |-> "Update", listen |-> <<>>, peers |-> <<>>, allowed_public_keys |-> <<>>]

\* a broadcast that still names a listen address to the agent of a deleted node
BroadcastMessage_KeepsListen(configs, id) ==
    IF id \in DOMAIN configs THEN UpdateOf(configs[id])
    ELSE [ZeroUpdate EXCEPT !.listen = <<<<"t", "c", "p">>>>]

\* the message broadcast sends to the entry of node id
BroadcastMessage(configs, id) ==
    IF id \in DOMAIN configs THEN UpdateOf(configs[id]) ELSE ZeroUpdate

\* a broadcast that drops only the entries whose send failed
BroadcastDrops_OnlyFailed(configs, id, sendOk) == ~sendOk

\* whether broadcast pushes the entry of node id on failed_connections
BroadcastDrops(configs, id, sendOk) == ~sendOk \/ id \notin DOMAIN configs

\* the locals of a broadcast that read the rows `nodes`
BcBegin(nodes) ==
    [configs |-> generate_configs(nodes), todo |-> DOMAIN registry, failed |-> {},
     cur |-> 0, nodes |-> nodes, sendErr |-> {}]

\* broadcast_configuration_update, lines 28-33: take the write lock, then
\* generate_configs (get_all_nodes answers an empty list when the query fails)
BcStart(p) ==
    /\ pc[p] = "bc_start"
    /\ lock = NoLock
    /\ lock' = p
    /\ \/ /\ bc' = [bc EXCEPT ![p] = BcBegin(directory)]
          /\ UNCHANGED dbFails
       \/ /\ DbCanFail
          /\ dbFails' = dbFails + 1
          /\ bc' = [bc EXCEPT ![p] = BcBegin(<<>>)]
    /\ pc' = [pc EXCEPT ![p] = "bc_loop"]
    /\ UNCHANGED <<directory, template, nextId, registry, chan, lastEnq, rxOpen, node_id, loc,
                   eventsLeft, lastReg, configsSent, lastFrame,
                   agentVars>>

\* lines 35-63, one iteration for the entry of node id, whose send returns:
\* the message is queued unless the channel is closed
BcSendTo(p, id) ==
    LET t == registry[id] IN
    /\ pc[p] = "bc_loop"
    /\ id \in bc[p].todo
    /\ bc[p].cur \in {0, id}
    /\ SendReturns(t)
    /\ chan' = [chan EXCEPT ![t] = AfterSend(t, BroadcastMessage(bc[p].configs, id))]
    /\ lastEnq' = [lastEnq EXCEPT ![t] = IF SendOk(t)
                                         THEN BroadcastMessage(bc[p].configs, id) ELSE @]
    /\ bc' = [bc EXCEPT ![p].todo = @ \ {id},
                        ![p].cur = 0,
                        ![p].failed = IF BroadcastDrops(bc[p].configs, id, SendOk(t))
                                      THEN @ \cup {id} ELSE @,
                        ![p].sendErr = IF SendOk(t) THEN @ ELSE @ \cup {id}]
    /\ UNCHANGED <<directory, template, nextId, dbFails, registry, lock, rxOpen, pc,
                   node_id, loc, eventsLeft, lastReg, configsSent, lastFrame,
                   agentVars>>

\* lines 43 and 55: tx.send(update).await on a full channel: the broadcast is
\* suspended at this entry until the channel has room or is closed
BcSuspend(p, id) ==
    /\ pc[p] = "bc_loop"
    /\ id \in bc[p].todo
    /\ bc[p].cur = 0
    /\ ~SendReturns(registry[id])
    /\ bc' = [bc EXCEPT ![p].cur = id]
    /\ UNCHANGED <<directory, template, nextId, dbFails, registry, lock, chan, lastEnq, rxOpen,
                   pc, node_id, loc, eventsLeft, lastReg, configsSent, lastFrame,
                   agentVars>>

\* the HashMap yields the entries in any order
BcSend(p) == \E id \in bc[p].todo : BcSendTo(p, id)

BcWait(p) == \E id \in bc[p].todo : BcSuspend(p, id)

\* lines 65-70: remove the failed connections, drop the lock guard
BcFinish(p) ==
    /\ pc[p] = "bc_loop"
    /\ bc[p].todo = {}
    /\ registry' = RegistryWithout(bc[p].failed)
    /\ lock' = NoLock
    /\ bc' = [bc EXCEPT ![p] = NoBc]
    /\ pc' = [pc EXCEPT ![p] = "idle"]
    /\ loc' = [loc EXCEPT ![p] = NoLoc]
    /\ UNCHANGED <<directory, template, nextId, dbFails, chan, lastEnq, rxOpen, node_id,
                   eventsLeft, lastReg, configsSent, lastFrame,
                   agentVars>>

(***************************************************************************)
(* modules/websocket.rs: handle_agent_socket, the receive loop             *)
(***************************************************************************)
\* the task returns to receiver.next().await
BackToIdle(s) ==
    /\ pc' = [pc EXCEPT ![s] = "idle"]
    /\ loc' = [loc EXCEPT ![s] = NoLoc]

\* lines 75-81: the listen template the handler uses, given the outcome of
\* get_listen_template
default_listen(readOk) == IF readOk THEN template ELSE DefaultTemplate

\* lines 71-81: a Register frame arrives; the listen template is read from the
\* settings (the fallback when the read fails)
RecvRegister(s) ==
    /\ pc[s] = "idle"
    /\ eventsLeft > 0
    /\ eventsLeft' = eventsLeft - 1
    /\ lastFrame' = [lastFrame EXCEPT ![s] = "Register"]
    /\ \E name \in Names, addresses \in AddrLists, readOk \in {TRUE} \cup {~DbCanFail} :
        /\ dbFails' = IF readOk THEN dbFails ELSE dbFails + 1
        /\ loc' = [loc EXCEPT ![s] = [NoLoc EXCEPT !.name = name,
                                                   !.addresses = addresses,
                                                   !.default_listen = default_listen(readOk)]]
    /\ pc' = [pc EXCEPT ![s] = "r_lookup"]
    /\ UNCHANGED <<directory, template, nextId, registry, lock, chan, lastEnq, rxOpen, node_id,
                   bc, lastReg, configsSent,
                   agentVars>>

\* line 84: get_node_by_name (one matching row; None when absent or on error)
RLookup(s) ==
    /\ pc[s] = "r_lookup"
    /\ \/ /\ RowsByName(loc[s].name) # {}
          /\ \E i \in RowsByName(loc[s].name) :
                loc' = [loc EXCEPT ![s].node = directory[i]]
          /\ pc' = [pc EXCEPT ![s] = "r_update"]
          /\ UNCHANGED dbFails
       \/ /\ RowsByName(loc[s].name) = {}
          /\ pc' = [pc EXCEPT ![s] = "r_add"]
          /\ UNCHANGED <<loc, dbFails>>
       \/ /\ DbCanFail
          /\ dbFails' = dbFails + 1
          /\ pc' = [pc EXCEPT ![s] = "r_add"]
          /\ UNCHANGED loc
    /\ UNCHANGED <<directory, template, nextId, registry, lock, chan, lastEnq, rxOpen, node_id,
                   bc, eventsLeft, lastReg, configsSent, lastFrame,
                   agentVars>>

\* what the Register handler passes to update_node as the listen of an
\* existing node (line 87: default_listen.clone())
RegisterUpdateListen(s) == loc[s].default_listen

\* lines 87-91: update_node of the existing node returns Ok
RUpdateOk(s) ==
    /\ pc[s] = "r_update"
    /\ RowsById(loc[s].node.id) # {}
    /\ directory' = update_node(loc[s].node.id, loc[s].name,
                                RegisterUpdateListen(s), loc[s].addresses)
    /\ pc' = [pc EXCEPT ![s] = "r_reget"]
    /\ UNCHANGED <<template, nextId, dbFails, registry, lock, chan, lastEnq, rxOpen, node_id,
                   loc, bc, eventsLeft, lastReg, configsSent, lastFrame,
                   agentVars>>

\* lines 92-95 and 116: update_node returns Err (no such row, or a database
\* error): a warning, and the handler goes on with the record it looked up
RUpdateErr(s) ==
    /\ pc[s] = "r_update"
    /\ RowsById(loc[s].node.id) = {} \/ DbCanFail
    /\ dbFails' = IF RowsById(loc[s].node.id) = {} THEN dbFails ELSE dbFails + 1
    /\ node_id' = [node_id EXCEPT ![s] = loc[s].node.id]
    /\ pc' = [pc EXCEPT ![s] = "r_register"]
    /\ UNCHANGED <<directory, template, nextId, registry, lock, chan, lastEnq, rxOpen, loc, bc,
                   eventsLeft, lastReg, configsSent, lastFrame,
                   agentVars>>

\* lines 100-104: add_node returns Ok
RAddOk(s) ==
    /\ pc[s] = "r_add"
    /\ nextId < MaxNodes
    /\ directory' = add_node(loc[s].name, loc[s].default_listen, loc[s].addresses)
    /\ nextId' = nextId + 1
    /\ loc' = [loc EXCEPT ![s].byName = TRUE]
    /\ pc' = [pc EXCEPT ![s] = "r_reget"]
    /\ UNCHANGED <<template, dbFails, registry, lock, chan, lastEnq, rxOpen, node_id, bc,
                   eventsLeft, lastReg, configsSent, lastFrame,
                   agentVars>>

\* a failed add_node that goes back to the receive loop without a reply
RAddErr_Silent(s) ==
    /\ pc[s] = "r_add"
    /\ DbCanFail
    /\ dbFails' = dbFails + 1
    /\ BackToIdle(s)
    /\ UNCHANGED <<directory, template, nextId, registry, lock, chan, lastEnq, rxOpen, node_id,
                   bc, eventsLeft, lastReg, configsSent, lastFrame,
                   agentVars>>

\* lines 105-111: add_node returns Err: an Error message is built for the agent
RAddErr(s) ==
    /\ pc[s] = "r_add"
    /\ DbCanFail
    /\ dbFails' = dbFails + 1
    /\ loc' = [loc EXCEPT ![s].msg = [type |-> "Error"]]
    /\ pc' = [pc EXCEPT ![s] = "r_error"]
    /\ UNCHANGED <<directory, template, nextId, registry, lock, chan, lastEnq, rxOpen, node_id,
                   bc, eventsLeft, lastReg, configsSent, lastFrame,
                   agentVars>>

\* line 109: tx.send(error_msg).await, its result ignored; node is None
RSendError(s) ==
    /\ pc[s] = "r_error"
    /\ SendReturns(s)
    /\ chan' = [chan EXCEPT ![s] = AfterSend(s, loc[s].msg)]
    /\ lastEnq' = [lastEnq EXCEPT ![s] = IF SendOk(s) THEN loc[s].msg ELSE @]
    /\ BackToIdle(s)
    /\ UNCHANGED <<directory, template, nextId, dbFails, registry, lock, rxOpen,
                   node_id, bc, eventsLeft, lastReg, configsSent, lastFrame,
                   agentVars>>

\* lines 90 and 103: read the node back (by id after an update, by name after
\* an add); line 116: node_id = Some(node.id) when the read found it
RReget(s) ==
    /\ pc[s] = "r_reget"
    /\ LET rows == IF loc[s].byName THEN RowsByName(loc[s].name)
                   ELSE RowsById(loc[s].node.id)
       IN  \/ /\ rows # {}
              /\ \E i \in rows :
                    /\ loc' = [loc EXCEPT ![s].node = directory[i]]
                    /\ node_id' = [node_id EXCEPT ![s] = directory[i].id]
              /\ pc' = [pc EXCEPT ![s] = "r_register"]
              /\ UNCHANGED dbFails
           \/ /\ rows = {} \/ DbCanFail
              /\ dbFails' = IF rows = {} THEN dbFails ELSE dbFails + 1
              /\ BackToIdle(s)
              /\ UNCHANGED node_id
    /\ UNCHANGED <<directory, template, nextId, registry, lock, chan, lastEnq, rxOpen, bc,
                   eventsLeft, lastReg, configsSent, lastFrame,
                   agentVars>>

\* line 119: register_agent_connection(node.id, tx.clone())
RRegister(s) ==
    /\ pc[s] = "r_register"
    /\ lock = NoLock
    /\ registry' = register_agent_connection(loc[s].node.id, s)
    /\ lastReg' = (loc[s].node.id :> s) @@ lastReg
    /\ pc' = [pc EXCEPT ![s] = "r_gen"]
    /\ UNCHANGED <<directory, template, nextId, dbFails, lock, chan, lastEnq, rxOpen, node_id,
                   loc, bc, eventsLeft, configsSent, lastFrame,
                   agentVars>>

\* a Config reply that leaves out the peers
ConfigMessage_NoPeers(node, listen, config) ==
    [type |-> "Config", node_id |-> node.id, private_key |-> node.private_key,
     listen |-> listen, peers |-> <<>>,
     allowed_public_keys |-> config.allowed_public_keys]

\* the Config reply of lines 127-133
ConfigMessage(node, listen, config) ==
    [type |-> "Config", node_id |-> node.id, private_key |-> node.private_key,
     listen |-> listen, peers |-> config.peers,
     allowed_public_keys |-> config.allowed_public_keys]

\* lines 122-133: generate_configs; the reply is built when the map has the node
RGen(s) ==
    /\ pc[s] = "r_gen"
    /\ \E readOk \in {TRUE} \cup {~DbCanFail} :
        LET configs == generate_configs(IF readOk THEN directory ELSE <<>>) IN
        /\ dbFails' = IF readOk THEN dbFails ELSE dbFails + 1
        /\ IF loc[s].node.id \in DOMAIN configs
           THEN /\ loc' = [loc EXCEPT ![s].msg =
                            ConfigMessage(loc[s].node, loc[s].default_listen,
                                          configs[loc[s].node.id])]
                /\ pc' = [pc EXCEPT ![s] = "r_config"]
           ELSE BackToIdle(s)
    /\ UNCHANGED <<directory, template, nextId, registry, lock, chan, lastEnq, rxOpen, node_id,
                   bc, eventsLeft, lastReg, configsSent, lastFrame,
                   agentVars>>

\* line 140: where the handler goes once tx.send(response) has returned
AfterConfig == "bc_start"

\* lines 135-140: tx.send(response).await (an Err is logged), then broadcast
RSendConfig(s) ==
    /\ pc[s] = "r_config"
    /\ SendReturns(s)
    /\ chan' = [chan EXCEPT ![s] = AfterSend(s, loc[s].msg)]
    /\ lastEnq' = [lastEnq EXCEPT ![s] = IF SendOk(s) THEN loc[s].msg ELSE @]
    /\ configsSent' = [configsSent EXCEPT ![s] = IF SendOk(s) THEN @ + 1 ELSE @]
    /\ pc' = [pc EXCEPT ![s] = AfterConfig]
    /\ UNCHANGED <<directory, template, nextId, dbFails, registry, lock, rxOpen,
                   node_id, loc, bc, eventsLeft, lastReg, lastFrame,
                   agentVars>>

\* a Heartbeat that makes the handler broadcast
RecvHeartbeat_Broadcasts(s) ==
    /\ pc[s] = "idle"
    /\ eventsLeft > 0
    /\ eventsLeft' = eventsLeft - 1
    /\ lastFrame' = [lastFrame EXCEPT ![s] = "Heartbeat"]
    /\ pc' = [pc EXCEPT ![s] = "bc_start"]
    /\ UNCHANGED <<directory, template, nextId, dbFails, registry, lock, chan, lastEnq, rxOpen,
                   node_id, loc, bc, lastReg, configsSent,
                   agentVars>>

\* line 144: a Heartbeat frame: only a debug log
RecvHeartbeat(s) ==
    /\ pc[s] = "idle"
    /\ eventsLeft > 0
    /\ eventsLeft' = eventsLeft - 1
    /\ lastFrame' = [lastFrame EXCEPT ![s] = "Heartbeat"]
    /\ UNCHANGED <<directory, template, nextId, dbFails, registry, lock, chan, lastEnq, rxOpen,
                   pc, node_id, loc, bc, lastReg, configsSent,
                   agentVars>>

\* a frame that does not parse ends the receive loop
RecvIgnored_EndsSession(s) ==
    /\ pc[s] = "idle"
    /\ eventsLeft > 0
    /\ eventsLeft' = eventsLeft - 1
    /\ lastFrame' = [lastFrame EXCEPT ![s] = "unparsed"]
    /\ pc' = [pc EXCEPT ![s] = "cleanup"]
    /\ UNCHANGED <<directory, template, nextId, dbFails, registry, lock, chan, lastEnq, rxOpen,
                   node_id, loc, bc, lastReg, configsSent,
                   agentVars>>

\* lines 67-68 and 176-178: a frame that is not a text frame (binary, ping,
\* pong, close), or a text that does not parse as an AgentMessage (a warning):
\* the loop goes on
RecvIgnored(s) ==
    /\ pc[s] = "idle"
    /\ eventsLeft > 0
    /\ eventsLeft' = eventsLeft - 1
    /\ lastFrame' = [lastFrame EXCEPT ![s] = "unparsed"]
    /\ UNCHANGED <<directory, template, nextId, dbFails, registry, lock, chan, lastEnq, rxOpen,
                   pc, node_id, loc, bc, lastReg, configsSent,
                   agentVars>>

\* lines 66-67: receiver.next() yields Some(Err(_)): the pattern
\* Ok(Message::Text(text)) does not match, the body is skipped and the loop
\* polls the stream again
RecvError(s) ==
    /\ pc[s] = "idle"
    /\ eventsLeft > 0
    /\ eventsLeft' = eventsLeft - 1
    /\ lastFrame' = [lastFrame EXCEPT ![s] = "Err"]
    /\ UNCHANGED <<directory, template, nextId, dbFails, registry, lock, chan, lastEnq, rxOpen,
                   pc, node_id, loc, bc, lastReg, configsSent,
                   agentVars>>

\* an UpdateAddresses handled without looking at node_id
RecvUpdateAddresses_NoGuard(s) ==
    /\ pc[s] = "idle"
    /\ eventsLeft > 0
    /\ eventsLeft' = eventsLeft - 1
    /\ lastFrame' = [lastFrame EXCEPT ![s] = "UpdateAddresses"]
    /\ \E addresses \in AddrLists :
            /\ loc' = [loc EXCEPT ![s] = [NoLoc EXCEPT !.addresses = addresses]]
            /\ pc' = [pc EXCEPT ![s] = "u_get"]
    /\ UNCHANGED <<directory, template, nextId, dbFails, registry, lock, chan, lastEnq, rxOpen,
                   node_id, bc, lastReg, configsSent,
                   agentVars>>

\* lines 147-152: an UpdateAddresses frame; without a node_id nothing happens
RecvUpdateAddresses(s) ==
    /\ pc[s] = "idle"
    /\ eventsLeft > 0
    /\ eventsLeft' = eventsLeft - 1
    /\ lastFrame' = [lastFrame EXCEPT ![s] = "UpdateAddresses"]
    /\ IF node_id[s] # 0
       THEN \E addresses \in AddrLists :
                /\ loc' = [loc EXCEPT ![s] = [NoLoc EXCEPT !.addresses = addresses]]
                /\ pc' = [pc EXCEPT ![s] = "u_get"]
       ELSE UNCHANGED <<loc, pc>>
    /\ UNCHANGED <<directory, template, nextId, dbFails, registry, lock, chan, lastEnq, rxOpen,
                   node_id, bc, lastReg, configsSent,
                   agentVars>>

\* line 152: get_node_by_id(id)
UGet(s) ==
    /\ pc[s] = "u_get"
    /\ \/ /\ RowsById(node_id[s]) # {}
          /\ \E i \in RowsById(node_id[s]) :
                loc' = [loc EXCEPT ![s].node = directory[i]]
          /\ pc' = [pc EXCEPT ![s] = "u_update"]
          /\ UNCHANGED dbFails
       \/ /\ RowsById(node_id[s]) = {} \/ DbCanFail
          /\ dbFails' = IF RowsById(node_id[s]) = {} THEN dbFails ELSE dbFails + 1
          /\ BackToIdle(s)
    /\ UNCHANGED <<directory, template, nextId, registry, lock, chan, lastEnq, rxOpen, node_id,
                   bc, eventsLeft, lastReg, configsSent, lastFrame,
                   agentVars>>

\* an UpdateAddresses handler that goes back to the receive loop after the update
AfterAddressUpdate_NoBroadcast == "idle"

\* line 163: where the handler goes once update_node has returned Ok
AfterAddressUpdate == "bc_start"

\* lines 154-163: update_node with the current name and listen returns Ok;
\* then broadcast
UUpdateOk(s) ==
    /\ pc[s] = "u_update"
    /\ RowsById(node_id[s]) # {}
    /\ directory' = update_node(node_id[s], loc[s].node.name, loc[s].node.listen,
                                loc[s].addresses)
    /\ pc' = [pc EXCEPT ![s] = AfterAddressUpdate]
    /\ UNCHANGED <<template, nextId, dbFails, registry, lock, chan, lastEnq, rxOpen, node_id,
                   loc, bc, eventsLeft, lastReg, configsSent, lastFrame,
                   agentVars>>

\* lines 165-167: update_node returns Err: an error log
UUpdateErr(s) ==
    /\ pc[s] = "u_update"
    /\ RowsById(node_id[s]) = {} \/ DbCanFail
    /\ dbFails' = IF RowsById(node_id[s]) = {} THEN dbFails ELSE dbFails + 1
    /\ BackToIdle(s)
    /\ UNCHANGED <<directory, template, nextId, registry, lock, chan, lastEnq, rxOpen, node_id,
                   bc, eventsLeft, lastReg, configsSent, lastFrame,
                   agentVars>>

\* line 66: receiver.next() yields None: the loop ends
RecvClose(s) ==
    /\ pc[s] = "idle"
    /\ pc' = [pc EXCEPT ![s] = "cleanup"]
    /\ UNCHANGED <<directory, template, nextId, dbFails, registry, lock, chan, lastEnq, rxOpen,
                   node_id, loc, bc, eventsLeft, lastReg, configsSent, lastFrame,
                   agentVars>>

\* the registry after the session's clean-up (lines 184-187)
CleanupRegistry(s) ==
    IF node_id[s] # 0 THEN unregister_agent_connection(node_id[s]) ELSE registry

\* lines 183-190: unregister the node_id if there is one, then abort send_task
\* (which drops the receiver, and with it what the channel still holds)
Cleanup(s) ==
    /\ pc[s] = "cleanup"
    /\ node_id[s] # 0 => lock = NoLock
    /\ registry' = CleanupRegistry(s)
    /\ rxOpen' = [rxOpen EXCEPT ![s] = FALSE]
    /\ chan' = [chan EXCEPT ![s] = <<>>]
    /\ UNCHANGED lastEnq
    /\ pc' = [pc EXCEPT ![s] = "closed"]
    /\ UNCHANGED <<directory, template, nextId, dbFails, lock, node_id, loc, bc,
                   eventsLeft, lastReg, configsSent, lastFrame,
                   agentVars>>

\* lines 55-63, send_task: one message taken from the channel and written to
\* the socket
Forward(s) ==
    /\ rxOpen[s]
    /\ chan[s] # <<>>
    /\ chan' = [chan EXCEPT ![s] = Tail(@)]
    /\ UNCHANGED lastEnq
    /\ UNCHANGED <<directory, template, nextId, dbFails, registry, lock, rxOpen, pc,
                   node_id, loc, bc, eventsLeft, lastReg, configsSent, lastFrame,
                   agentVars>>

\* lines 58-60, send_task: the write to the socket fails, the task ends and
\* drops the receiver
ForwardFails(s) ==
    /\ rxOpen[s]
    /\ chan[s] # <<>>
    /\ rxOpen' = [rxOpen EXCEPT ![s] = FALSE]
    /\ chan' = [chan EXCEPT ![s] = <<>>]
    /\ UNCHANGED lastEnq
    /\ UNCHANGED <<directory, template, nextId, dbFails, registry, lock, pc, node_id,
                   loc, bc, eventsLeft, lastReg, configsSent, lastFrame,
                   agentVars>>

(***************************************************************************)
(* modules/web.rs: the REST handlers                                       *)
(***************************************************************************)
\* a request arrives at the REST task
RestRequest ==
    /\ pc[RestProc] = "idle"
    /\ eventsLeft > 0
    /\ eventsLeft' = eventsLeft - 1

\* where a REST handler goes once its directory operation has returned Ok
\* (lines 140, 208, 236)
AfterRestMutation == "bc_start"

\* add_node_handler, lines 137-146: add_node returns Ok; then broadcast
RestAddOk ==
    /\ RestRequest
    /\ nextId < MaxNodes
    /\ \E name \in Names, listen \in TemplateValues, addresses \in AddrLists :
            directory' = add_node(name, listen, addresses)
    /\ nextId' = nextId + 1
    /\ pc' = [pc EXCEPT ![RestProc] = AfterRestMutation]
    /\ UNCHANGED <<template, dbFails, registry, lock, chan, lastEnq, rxOpen, node_id, loc, bc,
                   lastReg, configsSent, lastFrame,
                   agentVars>>

\* update_node_handler, lines 205-214: update_node returns Ok; then broadcast
RestUpdateOk ==
    /\ RestRequest
    /\ \E id \in NodeIds :
        /\ RowsById(id) # {}
        /\ \E name \in Names, listen \in TemplateValues, addresses \in AddrLists :
                directory' = update_node(id, name, listen, addresses)
    /\ pc' = [pc EXCEPT ![RestProc] = AfterRestMutation]
    /\ UNCHANGED <<template, nextId, dbFails, registry, lock, chan, lastEnq, rxOpen, node_id,
                   loc, bc, lastReg, configsSent, lastFrame,
                   agentVars>>

\* delete_node_handler, lines 233-242: remove_node returns Ok; then broadcast
RestDeleteOk ==
    /\ RestRequest
    /\ \E id \in NodeIds :
        /\ RowsById(id) # {}
        /\ directory' = remove_node(id)
    /\ pc' = [pc EXCEPT ![RestProc] = AfterRestMutation]
    /\ UNCHANGED <<template, nextId, dbFails, registry, lock, chan, lastEnq, rxOpen, node_id,
                   loc, bc, lastReg, configsSent, lastFrame,
                   agentVars>>

\* lines 147-150, 215-224, 243-252: the directory operation of an add, update
\* or delete request returns Err (a database error); the answer says so
RestMutationErr ==
    /\ RestRequest
    /\ DbCanFail
    /\ dbFails' = dbFails + 1
    /\ UNCHANGED <<directory, template, nextId, registry, lock, chan, lastEnq, rxOpen, pc,
                   node_id, loc, bc, lastReg, configsSent, lastFrame,
                   agentVars>>

\* lines 216-217 and 244-245: an update or delete of an id that has no row:
\* NOT_FOUND
RestNotFound ==
    /\ RestRequest
    /\ \E id \in NodeIds : RowsById(id) = {}
    /\ UNCHANGED <<directory, template, nextId, dbFails, registry, lock, chan, lastEnq, rxOpen,
                   pc, node_id, loc, bc, lastReg, configsSent, lastFrame,
                   agentVars>>

\* update_listen_template_handler: set_listen_template; no broadcast
RestSetTemplate ==
    /\ RestRequest
    /\ \/ /\ \E t \in TemplateValues : template' = t
          /\ UNCHANGED dbFails
       \/ /\ DbCanFail
          /\ dbFails' = dbFails + 1
          /\ UNCHANGED template
    /\ UNCHANGED <<directory, nextId, registry, lock, chan, lastEnq, rxOpen, pc, node_id, loc,
                   bc, lastReg, configsSent, lastFrame,
                   agentVars>>

Next ==
    \/ \E s \in Sessions : RecvRegister(s)
    \/ \E s \in Sessions : RLookup(s)
    \/ \E s \in Sessions : RUpdateOk(s)
    \/ \E s \in Sessions : RUpdateErr(s)
    \/ \E s \in Sessions : RAddOk(s)
    \/ \E s \in Sessions : RAddErr(s)
    \/ \E s \in Sessions : RSendError(s)
    \/ \E s \in Sessions : RReget(s)
    \/ \E s \in Sessions : RRegister(s)
    \/ \E s \in Sessions : RGen(s)
    \/ \E s \in Sessions : RSendConfig(s)
    \/ \E s \in Sessions : RecvHeartbeat(s)
    \/ \E s \in Sessions : RecvIgnored(s)
    \/ \E s \in Sessions : RecvError(s)
    \/ \E s \in Sessions : RecvUpdateAddresses(s)
    \/ \E s \in Sessions : UGet(s)
    \/ \E s \in Sessions : UUpdateOk(s)
    \/ \E s \in Sessions : UUpdateErr(s)
    \/ \E s \in Sessions : RecvClose(s)
    \/ \E s \in Sessions : Cleanup(s)
    \/ \E s \in Sessions : Forward(s)
    \/ \E s \in Sessions : ForwardFails(s)
    \/ \E p \in Procs : BcStart(p)
    \/ \E p \in Procs : BcSend(p)
    \/ \E p \in Procs : BcWait(p)
    \/ \E p \in Procs : BcFinish(p)
    \/ RestAddOk
    \/ RestUpdateOk
    \/ RestDeleteOk
    \/ RestMutationErr
    \/ RestNotFound
    \/ RestSetTemplate

Spec == Init /\ [][Next]_vars

(***************************************************************************)
(* Notions the properties use.                                             *)
(***************************************************************************)
\* the ids of a list of rows
IdsOf(nodes) == {nodes[i].id : i \in 1..Len(nodes)}

\* the session's socket is open (its receive loop has not ended) and its
\* outbound channel is open
SessionLive(s) == pc[s] \notin {"cleanup", "closed"} /\ rxOpen[s]

\* the session is associated with a node and has registered its channel
Associated(s) == node_id[s] # 0 /\ pc[s] # "r_register"

\* a broadcast is suspended in tx.send on a full channel
BroadcastSuspended(p) ==
    /\ pc[p] = "bc_loop"
    /\ bc[p].cur # 0
    /\ ~SendReturns(registry[bc[p].cur])

\* a task is waiting for the registry's write lock, which another task holds
WaitsForLock(q) ==
    /\ lock \notin {NoLock, q}
    /\ \/ pc[q] \in {"bc_start", "r_register"}
       \/ pc[q] = "cleanup" /\ node_id[q] # 0

\* the entry a step of the broadcast loop has just served
Served(p) == bc[p].todo \ bc'[p].todo

(***************************************************************************)
(* C1: when a broadcast ends, the entries it removes from the registry are *)
(* exactly those whose send returned an error or whose node id is not      *)
(* among the rows the broadcast read; every other entry is still there,    *)
(* with the same channel.                                                  *)
(***************************************************************************)
C1_BroadcastRemovesIffFailedOrAbsent ==
    [][\A p \in Procs : BcFinish(p) =>
        /\ DOMAIN registry' =
              {id \in DOMAIN registry :
                  ~(id \in bc[p].sendErr \/ id \notin IdsOf(bc[p].nodes))}
        /\ \A id \in DOMAIN registry' : registry'[id] = registry[id]]_vars

\* a broadcast has served all entries, and will remove some and keep others
C1_Witness ==
    \E p \in Procs :
        /\ pc[p] = "bc_loop"
        /\ bc[p].todo = {}
        /\ bc[p].failed # {}
        /\ (DOMAIN registry) \ bc[p].failed # {}

(***************************************************************************)
(* C2: in runs without database failures, a live session that is           *)
(* associated with a node of the directory, and was the last to register   *)
(* for that node id, has the registry entry of that node id.               *)
(***************************************************************************)
C2_LiveSessionIsRegistered ==
    \A s \in Sessions :
        (/\ SessionLive(s)
         /\ Associated(s)
         /\ dbFails = 0
         /\ RowsById(node_id[s]) # {}
         /\ node_id[s] \in DOMAIN lastReg
         /\ lastReg[node_id[s]] = s)
        => (node_id[s] \in DOMAIN registry /\ registry[node_id[s]] = s)

(***************************************************************************)
(* C3: a broadcast is never suspended at an entry whose channel is full:   *)
(* the send to a full channel returns like a failed send.                  *)
(***************************************************************************)
C3_BroadcastNeverSuspended == \A p \in Procs : ~BroadcastSuspended(p)

(***************************************************************************)
(* C4: no task waits for the registry lock while the broadcast that holds  *)
(* it is suspended on the full channel of an agent that does not drain.    *)
(***************************************************************************)
C4_LockNotHeldAcrossSuspendedSend ==
    \A q \in Procs : WaitsForLock(q) => ~BroadcastSuspended(lock)

(***************************************************************************)
(* C5: the update a Register makes to an existing node changes only that   *)
(* node's addresses: every row keeps its id, name, keys and listen.        *)
(***************************************************************************)
C5_ReRegisterKeepsListen ==
    [][\A s \in Sessions : RUpdateOk(s) =>
        /\ Len(directory') = Len(directory)
        /\ \A i \in 1..Len(directory) :
              directory'[i] =
                  IF directory[i].id = loc[s].node.id
                  THEN [directory[i] EXCEPT !.addresses = loc[s].addresses]
                  ELSE directory[i]]_vars

C8_DeletedNodeZeroedAndPruned ==
    [][\A p \in Procs :
        /\ \A id \in DOMAIN registry :
              (BcSendTo(p, id) /\ id \notin IdsOf(bc[p].nodes)) =>
                 LET t == registry[id] IN
                 /\ chan'[t] = IF SendOk(t) THEN Append(chan[t], ZeroUpdate) ELSE chan[t]
                 /\ id \in bc'[p].failed
        /\ BcFinish(p) =>
              \A id \in DOMAIN registry :
                  id \notin IdsOf(bc[p].nodes) => id \notin DOMAIN registry']_vars

\* the session of a deleted node has been sent the zeroed Update and its
\* entry is gone
C8_Witness ==
    \E s \in Sessions :
        /\ dbFails = 0
        /\ node_id[s] # 0
        /\ node_id[s] \in DOMAIN lastReg
        /\ lastReg[node_id[s]] = s
        /\ RowsById(node_id[s]) = {}
        /\ node_id[s] \notin DOMAIN registry
        /\ chan[s] # <<>>
        /\ chan[s][Len(chan[s])] = ZeroUpdate

(***************************************************************************)
(* C9: a broadcast visits the entries registered when it took the lock;    *)
(* for each entry whose node id is among the rows it read, it queues (when *)
(* the send succeeds) one Update whose listen, peers and                   *)
(* allowed_public_keys are those synthesized for that node from these      *)
(* rows, on that entry's channel only; it ends when every entry was        *)
(* visited.  The rows are the directory as it is when the lock is taken.   *)
(***************************************************************************)
C9_BroadcastSendsFreshConfig ==
    [][\A p \in Procs :
        /\ BcStart(p) =>
              /\ bc'[p].todo = DOMAIN registry
              /\ dbFails' = dbFails => bc'[p].nodes = directory
        /\ \A id \in DOMAIN registry :
              (BcSendTo(p, id) /\ id \in IdsOf(bc[p].nodes)) =>
                 LET t == registry[id]
                     c == generate_configs(bc[p].nodes)[id]
                     update == [type |-> "Update", listen |-> c.listen,
                                peers |-> c.peers,
                                allowed_public_keys |-> c.allowed_public_keys]
                 IN
                 /\ chan'[t] = IF SendOk(t) THEN Append(chan[t], update) ELSE chan[t]
                 /\ \A u \in Sessions \ {t} : chan'[u] = chan[u]
                 /\ bc'[p].todo = bc[p].todo \ {id}
        /\ BcFinish(p) => bc[p].todo = {}
        /\ (pc[p] = "bc_loop" /\ pc'[p] = "bc_loop") =>
              /\ bc'[p].todo \subseteq bc[p].todo
              /\ bc'[p].nodes = bc[p].nodes]_vars

\* a broadcast has queued, for a node of the directory, an Update that names
\* peers
C9_Witness ==
    \E p \in Procs : \E id \in DOMAIN registry :
        /\ pc[p] = "bc_loop"
        /\ bc[p].todo = {}
        /\ id \in IdsOf(bc[p].nodes)
        /\ id \notin bc[p].sendErr
        /\ chan[registry[id]] # <<>>
        /\ LET m == chan[registry[id]][Len(chan[registry[id]])] IN
             /\ m.type = "Update"
             /\ m.peers # <<>>
             /\ m.peers = generate_configs(directory)[id].peers

(***************************************************************************)
(* C10: a REST add, update or delete that succeeded, an UpdateAddresses    *)
(* whose update succeeded and a Register whose Config reply was issued     *)
(* each take their task to the invocation of broadcast; a task leaves that *)
(* invocation only by taking the lock and reading the directory as it then *)
(* is (so after the mutation), or nothing when the read fails.             *)
(***************************************************************************)
C10_MutationThenBroadcast ==
    [][/\ (RestAddOk \/ RestUpdateOk \/ RestDeleteOk) => pc'[RestProc] = "bc_start"
       /\ \A s \in Sessions : (UUpdateOk(s) \/ RSendConfig(s)) => pc'[s] = "bc_start"
       /\ \A p \in Procs :
            (pc[p] = "bc_start" /\ pc'[p] # "bc_start") =>
                /\ pc'[p] = "bc_loop"
                /\ lock' = p
                /\ bc'[p].nodes = IF dbFails' = dbFails THEN directory' ELSE <<>>]_vars

\* a broadcast invoked after a mutation is running on the rows that mutation
\* left
C10_Witness ==
    \E p \in Procs :
        /\ pc[p] = "bc_loop"
        /\ directory # <<>>
        /\ bc[p].nodes = directory

\* the handler of session s is in the broadcast that follows its Config reply
InRegisterBroadcast(s) == pc[s] = "bc_loop" /\ loc[s].msg.type = "Config"

\* the elements of a sequence
Range(seq) == {seq[i] : i \in 1..Len(seq)}

(***************************************************************************)
(* C11: the broadcast that follows a session's Config reply sends nothing  *)
(* to the entry that holds that session's own channel; to every other      *)
(* entry of a node it read, it sends an Update whose allowed_public_keys   *)
(* name the registering session's node.                                    *)
(***************************************************************************)
C11_RegisterBroadcastSkipsSelf ==
    [][\A s \in Sessions : \A id \in DOMAIN registry :
        (InRegisterBroadcast(s) /\ BcSendTo(s, id)) =>
            /\ registry[id] # s
            /\ (SendOk(registry[id]) /\ id \in IdsOf(bc[s].nodes)
                    /\ loc[s].node.id \in IdsOf(bc[s].nodes)) =>
                  LET t == registry[id] IN
                  loc[s].node.public_key \in
                      Range(chan'[t][Len(chan'[t])].allowed_public_keys)]_vars

(***************************************************************************)
(* C12: no session is sent Config more than once.                          *)
(***************************************************************************)
C12_ConfigAtMostOnce == \A s \in Sessions : configsSent[s] <= 1

\* the node ids whose registry entry holds the channel of session s
EntriesOf(s) == {id \in DOMAIN registry : registry[id] = s}

(***************************************************************************)
(* C13: once a session has run its clean-up, no registry entry holds its   *)
(* channel.                                                                *)
(***************************************************************************)
C13_ClosedSessionNotRegistered ==
    \A s \in Sessions : pc[s] = "closed" => EntriesOf(s) = {}

\* the receive loop of session s takes a frame and enters the arm of a message
StartsHandler(s) == pc[s] = "idle" /\ pc'[s] \notin {"idle", "cleanup"}

(***************************************************************************)
(* C14: an Err item of the inbound stream ends the receive loop (the       *)
(* session goes to its clean-up), and a session whose stream has yielded   *)
(* an Err item handles no later inbound message.                           *)
(***************************************************************************)
C14_TransportErrorEndsSession ==
    [][\A s \in Sessions :
        /\ RecvError(s) => pc'[s] = "cleanup"
        /\ lastFrame[s] = "Err" => ~StartsHandler(s)]_vars

(***************************************************************************)
(* C15: when a broadcast ends that found a registered node id deleted from *)
(* the directory, the session registered under that id is ended: its       *)
(* receive loop is over (clean-up or closed).                              *)
(***************************************************************************)
C15_DeletedNodeSessionClosed ==
    [][\A p \in Procs : BcFinish(p) =>
        \A id \in DOMAIN registry :
            (id \notin IdsOf(directory) /\ id \notin IdsOf(bc[p].nodes)) =>
                pc'[registry[id]] \in {"cleanup", "closed"}]_vars

(***************************************************************************)
(* A second starting point: session 1 has completed the handshake          *)
(* Register{name: "n1", addresses: []} on the empty directory, its Config  *)
(* and the Update of the broadcast that followed were written to the       *)
(* socket, and every task is back in its loop.                             *)
(***************************************************************************)
InitAssoc ==
    /\ directory = <<NewNode(1, "n1", DefaultTemplate, <<>>)>>
    /\ template = DefaultTemplate
    /\ nextId = 1
    /\ dbFails = 0
    /\ registry = (1 :> 1)
    /\ lock = NoLock
    /\ chan = [s \in Sessions |-> <<>>]
    /\ rxOpen = [s \in Sessions |-> TRUE]
    /\ pc = [p \in Procs |-> "idle"]
    /\ node_id = [s \in Sessions |-> IF s = 1 THEN 1 ELSE 0]
    /\ loc = [p \in Procs |-> NoLoc]
    /\ bc = [p \in Procs |-> NoBc]
    /\ eventsLeft = MaxEvents
    /\ lastReg = (1 :> 1)
    /\ configsSent = [s \in Sessions |-> IF s = 1 THEN 1 ELSE 0]
    /\ lastFrame = [s \in Sessions |-> IF s = 1 THEN "Register" ELSE "none"]
    /\ lastEnq = [s \in Sessions |->
                    IF s = 1 THEN UpdateOf(generate_configs(directory)[1]) ELSE NoMsg]
    /\ AgentStart(FALSE, NoArtifact)

SpecAssoc == InitAssoc /\ [][Next]_vars

\* the second starting point, as the first specification reaches it (one
\* frame taken)
InitAssocReached ==
    /\ directory = <<NewNode(1, "n1", DefaultTemplate, <<>>)>>
    /\ template = DefaultTemplate
    /\ nextId = 1
    /\ dbFails = 0
    /\ registry = (1 :> 1)
    /\ lock = NoLock
    /\ chan = [s \in Sessions |-> <<>>]
    /\ rxOpen = [s \in Sessions |-> TRUE]
    /\ pc = [p \in Procs |-> "idle"]
    /\ node_id = [s \in Sessions |-> IF s = 1 THEN 1 ELSE 0]
    /\ loc = [p \in Procs |-> NoLoc]
    /\ bc = [p \in Procs |-> NoBc]
    /\ eventsLeft = MaxEvents - 1
    /\ lastReg = (1 :> 1)
    /\ configsSent = [s \in Sessions |-> IF s = 1 THEN 1 ELSE 0]
    /\ lastFrame = [s \in Sessions |-> IF s = 1 THEN "Register" ELSE "none"]
    /\ lastEnq = [s \in Sessions |->
                    IF s = 1 THEN UpdateOf(generate_configs(directory)[1]) ELSE NoMsg]

\* the directory after the addresses of node id were set and nothing else
WithAddresses(nodes, id, addresses) ==
    [i \in 1..Len(nodes) |->
        IF nodes[i].id = id THEN [nodes[i] EXCEPT !.addresses = addresses]
        ELSE nodes[i]]

(***************************************************************************)
(* C16: the update an UpdateAddresses makes sets the addresses of the      *)
(* session's node to the list sent and changes nothing else in the         *)
(* directory (the node keeps the name and listen it has), and the handler  *)
(* then invokes broadcast.                                                 *)
(***************************************************************************)
C16_UpdateAddressesKeepsNameListen ==
    [][\A s \in Sessions : UUpdateOk(s) =>
        /\ directory' = WithAddresses(directory, node_id[s], loc[s].addresses)
        /\ pc'[s] = "bc_start"]_vars

(***************************************************************************)
(* C17: a frame that does not parse as an agent message changes neither    *)
(* the session's node_id, nor the directory, nor the registry, queues no   *)
(* message, starts no handler or broadcast, and leaves the session in its  *)
(* receive loop.                                                           *)
(***************************************************************************)
C17_UnparsedFrameIgnored ==
    [][\A s \in Sessions : RecvIgnored(s) =>
        /\ node_id' = node_id
        /\ directory' = directory
        /\ registry' = registry
        /\ chan' = chan
        /\ pc' = pc /\ pc[s] = "idle"]_vars

\* an associated, registered session has taken a frame that does not parse
\* and is in its receive loop
C17_Witness ==
    \E s \in Sessions :
        /\ lastFrame[s] = "unparsed"
        /\ pc[s] = "idle"
        /\ node_id[s] # 0
        /\ node_id[s] \in DOMAIN registry
        /\ registry[node_id[s]] = s

(***************************************************************************)
(* C18: on a session without a node_id, an UpdateAddresses or a Heartbeat  *)
(* changes neither the directory nor the registry, queues no message and   *)
(* starts no handler or broadcast.                                         *)
(***************************************************************************)
C18_UnassociatedOnlyRegister ==
    [][\A s \in Sessions :
        (node_id[s] = 0 /\ (RecvUpdateAddresses(s) \/ RecvHeartbeat(s))) =>
            /\ directory' = directory
            /\ registry' = registry
            /\ chan' = chan
            /\ node_id' = node_id
            /\ pc' = pc]_vars

\* a session without a node_id has taken an UpdateAddresses while the
\* directory has nodes and the registry has entries
C18_Witness ==
    \E s \in Sessions :
        /\ node_id[s] = 0
        /\ lastFrame[s] = "UpdateAddresses"
        /\ pc[s] = "idle"
        /\ directory # <<>>
        /\ DOMAIN registry # {}

(***************************************************************************)
(* C19: a Heartbeat changes neither the session's node_id, nor the         *)
(* directory, nor the registry, queues no message and starts no broadcast. *)
(***************************************************************************)
C19_HeartbeatNoChange ==
    [][\A s \in Sessions : RecvHeartbeat(s) =>
        /\ node_id' = node_id
        /\ directory' = directory
        /\ registry' = registry
        /\ chan' = chan
        /\ \A p \in Procs : pc'[p] # "bc_start" \/ pc[p] = "bc_start"]_vars

\* an associated, registered session has taken a Heartbeat
C19_Witness ==
    \E s \in Sessions :
        /\ lastFrame[s] = "Heartbeat"
        /\ node_id[s] # 0
        /\ node_id[s] \in DOMAIN registry
        /\ registry[node_id[s]] = s
        /\ pc[s] = "idle"

(***************************************************************************)
(* The synthesis on its own: directories drawn from listen endpoints of    *)
(* each form (plain host, bracketed IPv6 literal with a query parameter,   *)
(* unix socket) and address lists, on which a REST handler is about to     *)
(* run broadcast_configuration_update, which calls generate_configs.       *)
(***************************************************************************)
\* listen endpoints by their parts
EpTcp == [scheme |-> <<"t", "c", "p">>, host |-> <<"0", ".", "0", ".", "0", ".", "0">>,
          port |-> <<"9", "0", "0", "1">>, params |-> <<>>]
EpTls == [scheme |-> <<"t", "l", "s">>, host |-> <<"[", ":", ":", "]">>,
          port |-> <<"2">>, params |-> <<"p", "=", "1">>]
EpUnix == [scheme |-> <<"u", "n", "i", "x">>, host |-> <<"/", "s">>,
           port |-> <<>>, params |-> <<>>]
Endpoints == {EpTcp, EpTls, EpUnix}

\* the endpoint uses the local-only transport
IsLocalOnly(e) == e.scheme = <<"u", "n", "i", "x">>

\* the listen URI of an endpoint, as stored in a node's listen list
Render(e) ==
    IF IsLocalOnly(e) THEN e.scheme \o <<":", "/", "/">> \o e.host
    ELSE e.scheme \o <<":", "/", "/">> \o e.host \o <<":">> \o e.port
            \o (IF e.params = <<>> THEN <<>> ELSE <<"?">> \o e.params)

\* "a2": a second address
Addr2 == <<"a", "2">>

\* sequences over S of length up to n
SeqsUpTo(S, n) == UNION {[1..k -> S] : k \in 0..n}

\* the listen lists: up to MaxListen endpoints, each at most once
ListenLists ==
    {l \in SeqsUpTo({Render(e) : e \in Endpoints}, MaxListen) :
        \A i, j \in 1..Len(l) : i # j => l[i] # l[j]}
\* the address lists: none, "a1", "a1" and "a2", ...
SynthAddrLists == {SubSeq(<<Addr1, Addr2, Addr1, Addr2>>, 1, k) : k \in 0..MaxAddrs}
SynthNames == <<"n1", "n2", "n3", "n4", "n5">>

\* the directories the synthesis is checked on: up to maxNodes rows, with ids
\* 1..n
SynthDirectories(maxNodes) ==
    UNION {{[i \in 1..n |-> NewNode(i, SynthNames[i], f[i][1], f[i][2])] :
                f \in [1..n -> ListenLists \X SynthAddrLists]} :
           n \in 1..maxNodes}

InitSynth ==
    /\ directory \in SynthDirectories(MaxSynthNodes)
    /\ template = DefaultTemplate
    /\ nextId = Len(directory)
    /\ dbFails = 0
    /\ registry = <<>>
    /\ lock = NoLock
    /\ chan = [s \in Sessions |-> <<>>]
    /\ rxOpen = [s \in Sessions |-> TRUE]
    /\ pc = [p \in Procs |-> IF p = RestProc THEN "bc_start" ELSE "idle"]
    /\ node_id = [s \in Sessions |-> 0]
    /\ loc = [p \in Procs |-> NoLoc]
    /\ bc = [p \in Procs |-> NoBc]
    /\ eventsLeft = 0
    /\ lastReg = <<>>
    /\ configsSent = [s \in Sessions |-> 0]
    /\ lastFrame = [s \in Sessions |-> "none"]
    /\ lastEnq = [s \in Sessions |-> NoMsg]
    /\ AgentStart(FALSE, NoArtifact)

NextSynth == BcStart(RestProc) \/ BcFinish(RestProc)

SpecSynth == InitSynth /\ [][NextSynth]_vars

\* the endpoint a listen URI of the directories above was rendered from
EndpointOf(uri) == CHOOSE e \in Endpoints : Render(e) = uri

\* the peer URI for an endpoint of a node with the given key, at an address
PeerEntry(e, public_key, addr) ==
    e.scheme \o <<":", "/", "/">> \o addr \o <<":">> \o e.port
        \o <<"?", "k", "e", "y", "=">> \o public_key
        \o (IF e.params = <<>> THEN <<>> ELSE <<"&">> \o e.params)

\* the addresses a node is reached at: its own, or 127.0.0.1 when it has none
ReachableAddrs(node) ==
    IF node.addresses = <<>> THEN <<<<"1", "2", "7", ".", "0", ".", "0", ".", "1">>>>
    ELSE node.addresses

\* for the node in row a: the (row b, listen endpoint i, address j) of the
\* other nodes, without the endpoints on the local-only transport
Combos(nodes, a) ==
    UNION {UNION {{<<b, i, j>> : j \in 1..Len(ReachableAddrs(nodes[b]))} :
                    i \in {k \in 1..Len(nodes[b].listen) :
                              ~IsLocalOnly(EndpointOf(nodes[b].listen[k]))}} :
           b \in (1..Len(nodes)) \ {a}}

\* every node's peer list has exactly one entry per combination
PeersAsSpecified(nodes, configs) ==
    \A a \in 1..Len(nodes) :
        LET peers == configs[nodes[a].id].peers
            C == Combos(nodes, a)
        IN  /\ Len(peers) = Cardinality(C)
            /\ Range(peers) =
                 {PeerEntry(EndpointOf(nodes[c[1]].listen[c[2]]), nodes[c[1]].public_key,
                            ReachableAddrs(nodes[c[1]])[c[3]]) : c \in C}

(***************************************************************************)
(* C20: in the configs a broadcast has synthesized from the rows it read,  *)
(* the peer list of every node A has exactly one entry for every listen    *)
(* endpoint and address of every other node B, made of the endpoint's      *)
(* scheme and port, that address and B's public key; B's addresses are     *)
(* 127.0.0.1 alone when B has none, and unix endpoints give no entry.      *)
(***************************************************************************)
C20_PeersPerEndpointAndAddress ==
    \A p \in Procs :
        pc[p] = "bc_loop" => PeersAsSpecified(bc[p].nodes, bc[p].configs)

\* synthesized: three nodes, one without addresses that listens on a unix
\* socket and on tcp, one with two addresses and two endpoints; node 1 has
\* the five peers these give
C20_Witness ==
    /\ pc[RestProc] = "bc_loop"
    /\ bc[RestProc].nodes = directory
    /\ Len(directory) = 3
    /\ directory[2].addresses = <<>>
    /\ directory[2].listen = <<Render(EpUnix), Render(EpTcp)>>
    /\ directory[3].addresses = <<Addr1, Addr2>>
    /\ directory[3].listen = <<Render(EpTcp), Render(EpTls)>>
    /\ Len(bc[RestProc].configs[1].peers) = 5

(***************************************************************************)
(* C21: in the configs a broadcast has synthesized, every node's           *)
(* allowed_public_keys holds each other node's public key once and nothing *)
(* else; and for nodes A, B of two or more, when A's peer list has an      *)
(* entry built from a listen endpoint and an address of B, B's             *)
(* allowed_public_keys contains A's public key.                            *)
(***************************************************************************)
\* the peer entries the conversion gives for the endpoints and addresses of a node
EntriesBuiltFrom(node) ==
    {convert_listen_to_peer_with_address(node.listen[i], node.public_key,
                                         addresses_to_use(node)[j]) :
        i \in 1..Len(node.listen), j \in 1..Len(addresses_to_use(node))} \ {None}

AllowedKeysAsSpecified(nodes, configs) ==
    \A a \in 1..Len(nodes) :
        LET allowed == configs[nodes[a].id].allowed_public_keys
        IN  /\ Range(allowed) = {nodes[b].public_key : b \in (1..Len(nodes)) \ {a}}
            /\ Len(allowed) = Len(nodes) - 1

TopologySymmetric(nodes, configs) ==
    Len(nodes) >= 2 =>
        \A a, b \in 1..Len(nodes) :
            (a # b /\ Range(configs[nodes[a].id].peers) \cap EntriesBuiltFrom(nodes[b]) # {})
                => nodes[a].public_key \in Range(configs[nodes[b].id].allowed_public_keys)

C21_AllowedKeysAndSymmetry ==
    \A p \in Procs :
        pc[p] = "bc_loop" =>
            /\ AllowedKeysAsSpecified(bc[p].nodes, bc[p].configs)
            /\ TopologySymmetric(bc[p].nodes, bc[p].configs)

\* synthesized for three nodes: node 1 peers with node 2 through its tcp
\* endpoint, and node 2 allows the keys of nodes 1 and 3
C21_Witness ==
    /\ pc[RestProc] = "bc_loop"
    /\ bc[RestProc].nodes = directory
    /\ Len(directory) = 3
    /\ directory[2].listen = <<Render(EpTcp)>>
    /\ directory[2].addresses = <<Addr1>>
    /\ PeerEntry(EpTcp, directory[2].public_key, Addr1) \in Range(bc[RestProc].configs[1].peers)
    /\ bc[RestProc].configs[2].allowed_public_keys
            = <<directory[1].public_key, directory[3].public_key>>

(***************************************************************************)
(* C22: in the configs a broadcast has synthesized, no entry of a node's   *)
(* peer list carries the node's own public key, and the node's             *)
(* allowed_public_keys does not contain its own public key.                *)
(***************************************************************************)
NoSelfPeering(nodes, configs) ==
    \A a \in 1..Len(nodes) :
        /\ \A k \in 1..Len(configs[nodes[a].id].peers) :
                ~Contains(configs[nodes[a].id].peers[k], KeyParam \o nodes[a].public_key)
        /\ nodes[a].public_key \notin Range(configs[nodes[a].id].allowed_public_keys)

C22_NoSelfPeering ==
    \A p \in Procs : pc[p] = "bc_loop" => NoSelfPeering(bc[p].nodes, bc[p].configs)

\* synthesized for two nodes that both listen on tcp: each has the other as a
\* peer, and neither has an entry with its own key
C22_Witness ==
    /\ pc[RestProc] = "bc_loop"
    /\ bc[RestProc].nodes = directory
    /\ Len(directory) = 2
    /\ \A a \in 1..2 : directory[a].listen = <<Render(EpTcp)>>
    /\ \A a \in 1..2 : Len(bc[RestProc].configs[a].peers) >= 1

(***************************************************************************)
(* The conversion of listen strings: directories whose listen lists draw   *)
(* from every form of listen string a REST request can store (web.rs:137,  *)
(* 205 pass payload.listen on unchecked): the endpoints above, a plain     *)
(* host with a query parameter that contains ':', a scheme that ends in    *)
(* "unix", and strings without a scheme or without a port.                 *)
(***************************************************************************)
\* "tcp://h:3?p=a:b"
EpTcpPw == [scheme |-> <<"t", "c", "p">>, host |-> <<"h">>,
            port |-> <<"3">>, params |-> <<"p", "=", "a", ":", "b">>]
\* "xunix://h:4"
EpXunix == [scheme |-> <<"x", "u", "n", "i", "x">>, host |-> <<"h">>,
            port |-> <<"4">>, params |-> <<>>]
ParseEndpoints == Endpoints \cup {EpTcpPw, EpXunix}

\* "h:5": no scheme
MalNoScheme == <<"h", ":", "5">>
\* "tcp://h": plain host, no port
MalNoPort == <<"t", "c", "p", ":", "/", "/", "h">>
\* "tcp://[::]": bracketed IPv6 literal, no port
MalBracketNoPort == <<"t", "c", "p", ":", "/", "/", "[", ":", ":", "]">>
Malformed == {MalNoScheme, MalNoPort, MalBracketNoPort}

ParseListenLists ==
    {l \in SeqsUpTo({Render(e) : e \in ParseEndpoints} \cup Malformed, MaxListen) :
        \A i, j \in 1..Len(l) : i # j => l[i] # l[j]}
ParseAddrLists == {<<>>, <<Addr1>>}

\* a node that listens on tcp://0.0.0.0:9001 and reports "a1"
Bystander(i) == NewNode(i, SynthNames[i], <<Render(EpTcp)>>, <<Addr1>>)

\* directories of up to maxNodes rows with ids 1..n: the first `varied` rows
\* draw their listen list and addresses, the others are bystanders
ParseDirectories(maxNodes, varied) ==
    UNION {{[i \in 1..n |-> IF i <= varied
                            THEN NewNode(i, SynthNames[i], f[i][1], f[i][2])
                            ELSE Bystander(i)] :
                f \in [1..(IF n <= varied THEN n ELSE varied)
                            -> ParseListenLists \X ParseAddrLists]} :
           n \in 1..maxNodes}

InitParse ==
    /\ directory \in ParseDirectories(MaxParseNodes, ParseVariedRows)
    /\ template = DefaultTemplate
    /\ nextId = Len(directory)
    /\ dbFails = 0
    /\ registry = <<>>
    /\ lock = NoLock
    /\ chan = [s \in Sessions |-> <<>>]
    /\ rxOpen = [s \in Sessions |-> TRUE]
    /\ pc = [p \in Procs |-> IF p = RestProc THEN "bc_start" ELSE "idle"]
    /\ node_id = [s \in Sessions |-> 0]
    /\ loc = [p \in Procs |-> NoLoc]
    /\ bc = [p \in Procs |-> NoBc]
    /\ eventsLeft = 0
    /\ lastReg = <<>>
    /\ configsSent = [s \in Sessions |-> 0]
    /\ lastFrame = [s \in Sessions |-> "none"]
    /\ lastEnq = [s \in Sessions |-> NoMsg]
    /\ AgentStart(FALSE, NoArtifact)

SpecParse == InitParse /\ [][NextSynth]_vars

\* the listen string has the form scheme://host:port[?params]
WellFormed(uri) == uri \in {Render(e) : e \in ParseEndpoints \ {EpUnix}}
\* the parts of a listen string of the directories above
PartsOf(uri) == CHOOSE e \in ParseEndpoints : Render(e) = uri

HasPrefix(str, pre) == MatchAt(str, pre, 1)

\* scheme://addr:port?key=pubkey, the part of a peer entry before any &params
EntryPrefix(e, public_key, addr) ==
    e.scheme \o <<":", "/", "/">> \o addr \o <<":">> \o e.port
        \o <<"?", "k", "e", "y", "=">> \o public_key

(***************************************************************************)
(* C23: in the configs a broadcast has synthesized, a listen string on the *)
(* unix transport gives no peer entry in any node's peer list, and every   *)
(* listen string of the form scheme://host:port[?params] with another      *)
(* scheme gives, in each other node's peer list and for each address of    *)
(* its node, an entry scheme://address:port?key=KEY: only unix and         *)
(* unparseable listen strings are dropped.                                 *)
(***************************************************************************)
\* the listen string in position i of row b has an entry, for every address
\* of the node, in the peer list of row a
HasEntries(nodes, configs, a, b, i) ==
    \A j \in 1..Len(ReachableAddrs(nodes[b])) :
        \E k \in 1..Len(configs[nodes[a].id].peers) :
            HasPrefix(configs[nodes[a].id].peers[k],
                      EntryPrefix(PartsOf(nodes[b].listen[i]), nodes[b].public_key,
                                  ReachableAddrs(nodes[b])[j]))

UnixGivesNoEntry(nodes, configs) ==
    \A a \in 1..Len(nodes) :
        \A k \in 1..Len(configs[nodes[a].id].peers) :
            ~HasPrefix(configs[nodes[a].id].peers[k], UnixScheme)

OnlyUnixAndUnparseableDropped(nodes, configs) ==
    \A a, b \in 1..Len(nodes) :
        a # b => \A i \in 1..Len(nodes[b].listen) :
                    WellFormed(nodes[b].listen[i]) => HasEntries(nodes, configs, a, b, i)

C23_UnixOnlyDropped ==
    \A p \in Procs :
        pc[p] = "bc_loop" =>
            /\ UnixGivesNoEntry(bc[p].nodes, bc[p].configs)
            /\ OnlyUnixAndUnparseableDropped(bc[p].nodes, bc[p].configs)

(***************************************************************************)
(* C24: in the configs a broadcast has synthesized, every listen string    *)
(* scheme://host:port[?params] of a node B that is not on unix, with a     *)
(* plain or a bracketed host, gives in each other node's peer list, for    *)
(* each address of B, the entry scheme://address:port?key=KEY, followed by *)
(* &params when the listen string has parameters.                          *)
(***************************************************************************)
BuiltAsSpecified(nodes, configs) ==
    \A a, b \in 1..Len(nodes) :
        a # b => \A i \in 1..Len(nodes[b].listen) :
                    WellFormed(nodes[b].listen[i]) =>
                        \A j \in 1..Len(ReachableAddrs(nodes[b])) :
                            PeerEntry(PartsOf(nodes[b].listen[i]), nodes[b].public_key,
                                      ReachableAddrs(nodes[b])[j])
                                \in Range(configs[nodes[a].id].peers)

C24_PeerEntryFormat ==
    \A p \in Procs : pc[p] = "bc_loop" => BuiltAsSpecified(bc[p].nodes, bc[p].configs)

(***************************************************************************)
(* C25: in the configs a broadcast has synthesized from rows of which one  *)
(* has an unparseable listen string, there is a config for every row, each *)
(* peer list has the entries of the well-formed listen strings of the      *)
(* other rows, and the unparseable string has only lost its own entry:     *)
(* every entry of a peer list comes from a well-formed listen string.      *)
(***************************************************************************)
HasUnparseable(nodes) ==
    \E b \in 1..Len(nodes) : \E i \in 1..Len(nodes[b].listen) :
        nodes[b].listen[i] \in Malformed

ConfigForEveryNode(nodes, configs) ==
    DOMAIN configs = {nodes[a].id : a \in 1..Len(nodes)}

\* every entry of every peer list is the entry of a well-formed listen string
\* and an address of another node
EntriesFromWellFormedOnly(nodes, configs) ==
    \A a \in 1..Len(nodes) :
        \A k \in 1..Len(configs[nodes[a].id].peers) :
            \E b \in (1..Len(nodes)) \ {a} :
                \E i \in 1..Len(nodes[b].listen), j \in 1..Len(ReachableAddrs(nodes[b])) :
                    /\ WellFormed(nodes[b].listen[i])
                    /\ HasPrefix(configs[nodes[a].id].peers[k],
                                 EntryPrefix(PartsOf(nodes[b].listen[i]), nodes[b].public_key,
                                             ReachableAddrs(nodes[b])[j]))

C25_UnparseableDropsOneEntry ==
    \A p \in Procs :
        (pc[p] = "bc_loop" /\ HasUnparseable(bc[p].nodes)) =>
            /\ ConfigForEveryNode(bc[p].nodes, bc[p].configs)
            /\ OnlyUnixAndUnparseableDropped(bc[p].nodes, bc[p].configs)
            /\ EntriesFromWellFormedOnly(bc[p].nodes, bc[p].configs)

(***************************************************************************)
(* C26: every invocation of the synthesis by a broadcast yields the map    *)
(* that the directory, as it is at that moment, determines: the same keys  *)
(* and for each node the same listen, peers and allowed_public_keys in the *)
(* same order.  Two invocations on an unchanged directory then yield       *)
(* identical maps.                                                         *)
(***************************************************************************)
C26_SynthesisPure ==
    [][\A p \in Procs : BcStart(p) => bc'[p].configs = generate_configs(directory)]_vars

(***************************************************************************)
(* C27: no step changes the public_key or the private_key of a record      *)
(* (records are told apart by their id); and the Config built for a        *)
(* Register carries the id and the private key of the node that has the    *)
(* registered name, so that registering again under that name gives the    *)
(* same node_id and private_key.                                           *)
(***************************************************************************)
KeysUnchanged ==
    \A i \in 1..Len(directory), j \in 1..Len(directory') :
        directory[i].id = directory'[j].id =>
            /\ directory'[j].public_key = directory[i].public_key
            /\ directory'[j].private_key = directory[i].private_key

\* the step builds the Config reply of session s
BuildsConfig(s) == RGen(s) /\ pc'[s] = "r_config"

ConfigCarriesIdentityOfName(s) ==
    \A i \in RowsByName(loc[s].name) :
        /\ loc'[s].msg.node_id = directory[i].id
        /\ loc'[s].msg.private_key = directory[i].private_key

C27_IdentityImmutable ==
    [][/\ KeysUnchanged
       /\ \A s \in Sessions : BuildsConfig(s) => ConfigCarriesIdentityOfName(s)]_vars

(***************************************************************************)
(* C28: in every reachable state no two rows of the directory have the     *)
(* same name.                                                              *)
(***************************************************************************)
NamesUnique(nodes) ==
    \A i, j \in 1..Len(nodes) : i # j => nodes[i].name # nodes[j].name

C28_NamesUnique == NamesUnique(directory)

(***************************************************************************)
(* agent.rs: the agent process.  main (lines 97-113) calls run_agent in a  *)
(* loop and sleeps reconnect_interval between calls; run_agent (116-236)   *)
(* discovers the addresses, connects, sends Register and then serves, in   *)
(* one select loop, the server's messages, the heartbeat ticks and the     *)
(* address changes.  What the network, the server, the file system and the *)
(* service manager do is chosen by the step.                               *)
(***************************************************************************)
\* a history counter that stops at MaxCount
Counted(n) == IF n < MaxCount THEN n + 1 ELSE n

\* a supervising loop that gives up when run_agent returned Err
AfterRunAgent_ExitsOnError(result) == IF result = "Err" THEN "exited" ELSE "sleep"

\* lines 99-112: whatever run_agent returned is logged, then the sleep
AfterRunAgent(result) == "sleep"

\* run_agent returns: the locals of the connection are dropped
RunAgentReturns(result, why) ==
    /\ apc' = AfterRunAgent(result)
    /\ lastEnd' = why
    /\ server_msg' = NoMsg
    /\ handled' = 0

ServerUnchanged ==
    UNCHANGED <<directory, template, nextId, dbFails, registry, lock, chan, lastEnq, rxOpen,
                pc, node_id, loc, bc, eventsLeft, lastReg, configsSent, lastFrame>>

\* line 125: discover_addresses()? returns the addresses
AgentDiscoverOk ==
    /\ apc = "run_agent"
    /\ apc' = "connect"
    /\ UNCHANGED <<lastSent, no_restart, server_msg, registersSent, handled, lastEnd, lastApply, gotConfig, artifact>>
    /\ UNCHANGED taskVars
    /\ ServerUnchanged

\* line 125: NetworkInterface::show() fails and `?` returns the error
AgentDiscoverErr ==
    /\ apc = "run_agent"
    /\ RunAgentReturns("Err", "discover_failed")
    /\ UNCHANGED <<lastSent, no_restart, registersSent, lastApply, gotConfig, artifact>>
    /\ UNCHANGED taskVars
    /\ ServerUnchanged

\* line 129: connect_async returns the stream
AgentConnectOk ==
    /\ apc = "connect"
    /\ apc' = "register"
    /\ UNCHANGED <<lastSent, no_restart, server_msg, registersSent, handled, lastEnd, lastApply, gotConfig, artifact>>
    /\ UNCHANGED taskVars
    /\ ServerUnchanged

\* line 129: connect_async fails
AgentConnectErr ==
    /\ apc = "connect"
    /\ RunAgentReturns("Err", "connect_failed")
    /\ UNCHANGED <<lastSent, no_restart, registersSent, lastApply, gotConfig, artifact>>
    /\ UNCHANGED taskVars
    /\ ServerUnchanged

\* lines 135-142: the Register message is sent; lines 144-185 spawn the tasks
AgentRegisterOk ==
    /\ apc = "register"
    /\ apc' = "select"
    /\ registersSent' = Counted(registersSent)
    /\ lastSent' = "Register"
    /\ handled' = 0
    /\ lastApply' = "none"
    /\ gotConfig' = FALSE
    /\ UNCHANGED <<no_restart, server_msg, lastEnd, artifact>>
    /\ UNCHANGED taskVars
    /\ ServerUnchanged

\* line 141: write.send fails and `?` returns the error
AgentRegisterErr ==
    /\ apc = "register"
    /\ RunAgentReturns("Err", "send_failed")
    /\ UNCHANGED <<lastSent, no_restart, registersSent, lastApply, gotConfig, artifact>>
    /\ UNCHANGED taskVars
    /\ ServerUnchanged

\* the messages the server sends (by type; the handling is by type)
ServerMessageTypes == {"Config", "Update", "Error"}

\* the messages of a type that arrive in the model: lists that differ from
\* those a file written before holds
ServerMessages(t) ==
    CASE t = "Config" ->
            {[type |-> t, private_key |-> "k1", listen |-> <<"y">>, peers |-> <<"y">>,
              allowed_public_keys |-> <<"y">>]}
      [] t = "Update" ->
            {[type |-> t, listen |-> l, peers |-> q, allowed_public_keys |-> q] :
                l, q \in {<<>>, <<"z">>}}
      [] OTHER -> {[type |-> t]}

\* lines 369-377: the file write_yggdrasil_config writes: the four received
\* fields and InterfacePeers, NodeInfo, NodeInfoPrivacy as fixed values
write_yggdrasil_config(private_key, listen, peers, allowed_public_keys) ==
    [json |-> TRUE, PrivateKey |-> private_key, Listen |-> listen, Peers |-> peers,
     AllowedPublicKeys |-> allowed_public_keys, Other |-> "fixed"]

\* an update that appends the received lists to those of the file
update_yggdrasil_config_full_Merges(config, listen, peers, allowed_public_keys) ==
    [config EXCEPT !.Listen = @ \o listen, !.Peers = @ \o peers,
                   !.AllowedPublicKeys = @ \o allowed_public_keys]

\* lines 449-458: the file update_yggdrasil_config_full writes: the parsed
\* file with the three keys assigned
update_yggdrasil_config_full(config, listen, peers, allowed_public_keys) ==
    [config EXCEPT !.Listen = listen, !.Peers = peers,
                   !.AllowedPublicKeys = allowed_public_keys]

\* the file after the write of message msg succeeded
Written(msg, config) ==
    IF msg.type = "Config"
    THEN write_yggdrasil_config(msg.private_key, msg.listen, msg.peers,
                                msg.allowed_public_keys)
    ELSE update_yggdrasil_config_full(config, msg.listen, msg.peers,
                                      msg.allowed_public_keys)

\* lines 192-194: a text frame that parses: handle_server_message is called
AgentRecvMessage ==
    /\ apc = "select"
    /\ \E t \in ServerMessageTypes : server_msg' \in ServerMessages(t)
    /\ apc' = "handle"
    /\ gotConfig' = (gotConfig \/ server_msg'.type = "Config")
    /\ UNCHANGED <<lastSent, no_restart, registersSent, handled, lastEnd, lastApply, artifact>>
    /\ UNCHANGED taskVars
    /\ ServerUnchanged

\* line 195: a text frame that does not parse: a warning; line 210: a frame of
\* another kind: nothing
AgentRecvUnparsed ==
    /\ apc = "select"
    /\ UNCHANGED agentVars
    /\ ServerUnchanged

\* lines 198-201: a Close frame: break, run_agent returns Ok
AgentRecvClose ==
    /\ apc = "select"
    /\ RunAgentReturns("Ok", "server_close")
    /\ UNCHANGED <<lastSent, no_restart, registersSent, lastApply, gotConfig, artifact>>
    /\ UNCHANGED taskVars
    /\ ServerUnchanged

\* lines 202-205: the stream yields an error: break, run_agent returns Ok
AgentRecvErr ==
    /\ apc = "select"
    /\ RunAgentReturns("Ok", "transport_error")
    /\ UNCHANGED <<lastSent, no_restart, registersSent, lastApply, gotConfig, artifact>>
    /\ UNCHANGED taskVars
    /\ ServerUnchanged

\* lines 206-209: the stream ended: break, run_agent returns Ok
AgentRecvNone ==
    /\ apc = "select"
    /\ RunAgentReturns("Ok", "stream_ended")
    /\ UNCHANGED <<lastSent, no_restart, registersSent, lastApply, gotConfig, artifact>>
    /\ UNCHANGED taskVars
    /\ ServerUnchanged

\* lines 213-219: a heartbeat tick: the Heartbeat is sent
AgentHeartbeatOk ==
    /\ apc = "select"
    /\ lastSent' = "Heartbeat"
    /\ UNCHANGED <<apc, no_restart, server_msg, registersSent, handled, lastEnd, lastApply, gotConfig, artifact>>
    /\ UNCHANGED taskVars
    /\ ServerUnchanged

\* lines 215-218: sending the Heartbeat fails: break
AgentHeartbeatErr ==
    /\ apc = "select"
    /\ RunAgentReturns("Ok", "heartbeat_failed")
    /\ UNCHANGED <<lastSent, no_restart, registersSent, lastApply, gotConfig, artifact>>
    /\ UNCHANGED taskVars
    /\ ServerUnchanged

\* lines 221-230: the scanner reported a change: the UpdateAddresses is sent
AgentAddressUpdateOk ==
    /\ apc = "select"
    /\ lastSent' = "UpdateAddresses"
    /\ UNCHANGED <<apc, no_restart, server_msg, registersSent, handled, lastEnd, lastApply, gotConfig, artifact>>
    /\ UNCHANGED taskVars
    /\ ServerUnchanged

\* lines 226-229: sending an UpdateAddresses fails: break
AgentAddressUpdateErr ==
    /\ apc = "select"
    /\ RunAgentReturns("Ok", "update_failed")
    /\ UNCHANGED <<lastSent, no_restart, registersSent, lastApply, gotConfig, artifact>>
    /\ UNCHANGED taskVars
    /\ ServerUnchanged

\* handle_server_message returns Ok(()) (line 307) and the loop goes on
HandlerReturns(outcome) ==
    /\ apc' = "select"
    /\ server_msg' = NoMsg
    /\ handled' = Counted(handled)
    /\ lastApply' = outcome

\* lines 302-304: an Error message is logged
AgentHandleError ==
    /\ apc = "handle"
    /\ server_msg.type = "Error"
    /\ HandlerReturns(lastApply)
    /\ UNCHANGED <<lastSent, no_restart, registersSent, lastEnd, gotConfig, artifact>>
    /\ UNCHANGED taskVars
    /\ ServerUnchanged

\* a handler that returns the error of a failed write to the message loop
AgentWriteErr_Propagates ==
    /\ apc = "handle"
    /\ server_msg.type \in {"Config", "Update"}
    /\ RunAgentReturns("Err", "apply_failed")
    /\ lastApply' = "write_failed"
    /\ UNCHANGED <<lastSent, no_restart, registersSent, gotConfig, artifact>>
    /\ UNCHANGED taskVars
    /\ ServerUnchanged

\* lines 258, 270 and 287, 299: write_yggdrasil_config or
\* update_yggdrasil_config_full returns Err (the file cannot be read, parsed
\* or written, or the write through sudo fails too): the error is logged.  A
\* write that fails after the file was truncated leaves no JSON in it.
AgentWriteErr ==
    /\ apc = "handle"
    /\ server_msg.type \in {"Config", "Update"}
    /\ \E why \in {"write_failed", "sudo_failed"} : HandlerReturns(why)
    /\ artifact' \in {artifact, NoArtifact}
    /\ UNCHANGED <<lastSent, no_restart, registersSent, lastEnd, gotConfig>>
    /\ UNCHANGED taskVars
    /\ ServerUnchanged

\* a handler that restarts the service whatever --no-restart says
AgentWriteOk_AlwaysRestarts ==
    /\ apc = "handle"
    /\ server_msg.type \in {"Config", "Update"}
    /\ server_msg.type = "Update" => artifact.json
    /\ artifact' = Written(server_msg, artifact)
    /\ apc' = "restart"
    /\ lastApply' = "written"
    /\ UNCHANGED <<server_msg, handled>>
    /\ UNCHANGED <<lastSent, no_restart, registersSent, lastEnd, gotConfig>>
    /\ UNCHANGED taskVars
    /\ ServerUnchanged

\* lines 259-268 and 288-297: the write returned Ok (directly or through
\* sudo); without --no-restart the service is restarted next
AgentWriteOk ==
    /\ apc = "handle"
    /\ server_msg.type \in {"Config", "Update"}
    /\ server_msg.type = "Update" => artifact.json
    /\ artifact' = Written(server_msg, artifact)
    /\ IF no_restart
       THEN HandlerReturns("written")
       ELSE /\ apc' = "restart"
            /\ lastApply' = "written"
            /\ UNCHANGED <<server_msg, handled>>
    /\ UNCHANGED <<lastSent, no_restart, registersSent, lastEnd, gotConfig>>
    /\ UNCHANGED taskVars
    /\ ServerUnchanged

\* lines 263 and 292: restart_yggdrasil_service returns Ok
AgentRestartOk ==
    /\ apc = "restart"
    /\ HandlerReturns("restarted")
    /\ UNCHANGED <<lastSent, no_restart, registersSent, lastEnd, gotConfig, artifact>>
    /\ UNCHANGED taskVars
    /\ ServerUnchanged

\* lines 263-265 and 292-294: restart_yggdrasil_service returns Err: logged
AgentRestartErr ==
    /\ apc = "restart"
    /\ HandlerReturns("restart_failed")
    /\ UNCHANGED <<lastSent, no_restart, registersSent, lastEnd, gotConfig, artifact>>
    /\ UNCHANGED taskVars
    /\ ServerUnchanged

\* line 112: the sleep of reconnect_interval is over; run_agent is called again
AgentSleepDone ==
    /\ apc = "sleep"
    /\ apc' = "run_agent"
    /\ UNCHANGED <<lastSent, no_restart, server_msg, registersSent, handled, lastEnd, lastApply, gotConfig, artifact>>
    /\ UNCHANGED taskVars
    /\ ServerUnchanged

InitAgent ==
    /\ ServerInit
    /\ \E nr \in BOOLEAN, file \in {NoArtifact, OwnArtifact} : AgentStart(nr, file)

NextAgent ==
    \/ AgentDiscoverOk
    \/ AgentDiscoverErr
    \/ AgentConnectOk
    \/ AgentConnectErr
    \/ AgentRegisterOk
    \/ AgentRegisterErr
    \/ AgentRecvMessage
    \/ AgentRecvUnparsed
    \/ AgentRecvClose
    \/ AgentRecvErr
    \/ AgentRecvNone
    \/ AgentHeartbeatOk
    \/ AgentHeartbeatErr
    \/ AgentAddressUpdateOk
    \/ AgentAddressUpdateErr
    \/ AgentHandleError
    \/ AgentWriteErr
    \/ AgentWriteOk
    \/ AgentRestartOk
    \/ AgentRestartErr
    \/ AgentSleepDone

\* the timer of the sleep fires, and the main task runs when it can
SpecAgent == InitAgent /\ [][NextAgent]_vars /\ WF_vars(AgentSleepDone)

(***************************************************************************)
(* C29: the agent's supervising loop never exits; a failed connect, a      *)
(* transport error, a close by the server and every other way run_agent    *)
(* ends, with Ok or with Err, take the agent to the sleep of the reconnect *)
(* interval (Disconnected); the sleep always leads to a new call of        *)
(* run_agent, which connects and then sends Register before anything else. *)
(***************************************************************************)
\* the steps in which run_agent returns
AgentRunEnds ==
    \/ AgentDiscoverErr
    \/ AgentConnectErr
    \/ AgentRegisterErr
    \/ AgentRecvClose
    \/ AgentRecvErr
    \/ AgentRecvNone
    \/ AgentHeartbeatErr
    \/ AgentAddressUpdateErr

C29_AgentNeverGivesUp ==
    /\ [](apc # "exited")
    /\ [][AgentRunEnds => apc' = "sleep"]_vars
    /\ [][/\ (apc = "run_agent" /\ apc' # "run_agent") => apc' \in {"connect", "sleep"}
          /\ (apc = "connect" /\ apc' # "connect") => apc' \in {"register", "sleep"}
          /\ (apc = "register" /\ apc' # "register") =>
                \/ apc' = "sleep"
                \/ apc' = "select" /\ lastSent' = "Register"]_vars
    /\ (apc = "sleep") ~> (apc = "run_agent")

\* after a transport error the agent has connected again and sent Register
C29_Witness ==
    /\ apc = "select"
    /\ lastEnd = "transport_error"
    /\ registersSent = 2
    /\ lastSent = "Register"

(***************************************************************************)
(* C30: when the write of a Config or an Update fails (the direct write or *)
(* the one through sudo) or the restart of the service fails, the handler  *)
(* returns to the message loop: run_agent does not return, nothing is sent *)
(* and the agent waits for the next message on the same connection.        *)
(***************************************************************************)
C30_ApplyFailureKeepsConnection ==
    [][(AgentWriteErr \/ AgentRestartErr) =>
            /\ apc' = "select"
            /\ lastEnd' = lastEnd
            /\ registersSent' = registersSent
            /\ lastSent' = lastSent]_vars

\* the agent is handling an Update after the write through sudo failed for an
\* earlier message of this connection
C30_Witness ==
    /\ apc = "handle"
    /\ server_msg.type = "Update"
    /\ lastApply = "sudo_failed"
    /\ handled >= 1

(***************************************************************************)
(* C31: the agent sends a Heartbeat or an UpdateAddresses only after it    *)
(* has received a Config on the current connection; between the Register   *)
(* and the Config it sends neither.                                        *)
(***************************************************************************)
C31_PeriodicOnlyWhileRegistered ==
    [][(AgentHeartbeatOk \/ AgentAddressUpdateOk) => gotConfig]_vars

(***************************************************************************)
(* C33: an Update whose write succeeds replaces the Listen, Peers and      *)
(* AllowedPublicKeys of the configuration file by the received lists,      *)
(* whatever the file held, and leaves PrivateKey and the other fields as    *)
(* they were.                                                              *)
(***************************************************************************)
C33_UpdateReplacesThreeFields ==
    [][(AgentWriteOk /\ server_msg.type = "Update") =>
            /\ artifact'.Listen = server_msg.listen
            /\ artifact'.Peers = server_msg.peers
            /\ artifact'.AllowedPublicKeys = server_msg.allowed_public_keys
            /\ artifact'.PrivateKey = artifact.PrivateKey
            /\ artifact'.Other = artifact.Other
            /\ artifact'.json = artifact.json]_vars

\* a file written by hand, its lists replaced by an Update with an empty
\* listen list and other peers, key and further fields kept
C33_Witness ==
    /\ artifact.PrivateKey = "k0"
    /\ artifact.Other = "own"
    /\ artifact.Listen = <<>>
    /\ artifact.Peers = <<"z">>
    /\ artifact.AllowedPublicKeys = <<"z">>
    /\ lastApply \in {"written", "restarted", "restart_failed"}

(***************************************************************************)
(* C39: the service restart is attempted exactly in the steps in which the *)
(* write of a Config or an Update succeeded and --no-restart is not set:   *)
(* not after a failed write, not for an Error message, not with            *)
(* --no-restart.                                                           *)
(***************************************************************************)
C39_RestartIffWrittenAndEnabled ==
    [][(apc' = "restart" /\ apc # "restart") <=> (AgentWriteOk /\ ~no_restart)]_vars

\* the restart is in progress for an Update written after an earlier message
\* of this connection
C39_Witness ==
    /\ apc = "restart"
    /\ server_msg.type = "Update"
    /\ lastApply = "written"
    /\ handled >= 1

(***************************************************************************)
(* agent.rs:144-185 and 213-231: the two tasks run_agent spawns for a      *)
(* connection and the branches of its select loop that read their          *)
(* channels.  Both channels have capacity 1.  A task lives on after        *)
(* run_agent returned, until a send of its own returns Err.  SpecAgent     *)
(* follows the main task and takes the ticks and the scanner's reports as  *)
(* they come; SpecTasks follows the tasks and the channels and takes the   *)
(* beginning and the end of a connection as they come.                     *)
(***************************************************************************)
\* the main task's messages, the file and the server are left alone
TasksOnly ==
    /\ UNCHANGED <<apc, no_restart, server_msg, registersSent, handled, lastEnd, lastApply,
                   lastSent, gotConfig, artifact>>
    /\ ServerUnchanged

\* lines 125-185: run_agent discovers the addresses, connects, sends them in
\* the Register and spawns the tasks; current_addresses starts as that list
TasksSpawn ==
    /\ ~conn
    /\ conn' = TRUE
    /\ current' = sysAddrs
    /\ sentAddrs' = sysAddrs
    /\ UNCHANGED <<sysAddrs, hbQ, scanQ, scanPend, orphanHb, orphanScan>>
    /\ TasksOnly

\* the host's interfaces change: another list, or the same addresses in
\* another order
AddressesChange ==
    /\ sysAddrs' \in AddrVecs \ {sysAddrs}
    /\ UNCHANGED <<conn, hbQ, current, scanQ, scanPend, sentAddrs, orphanHb, orphanScan>>
    /\ TasksOnly

\* lines 146-154: a heartbeat task after its tick: the send queues the tick,
\* or returns Err when the receiver was dropped, and then the task ends
HeartbeatTask ==
    /\ \/ /\ conn
          /\ hbQ = 0
          /\ hbQ' = 1
          /\ UNCHANGED orphanHb
       \/ /\ orphanHb > 0
          /\ orphanHb' = orphanHb - 1
          /\ UNCHANGED hbQ
    /\ UNCHANGED <<sysAddrs, conn, current, scanQ, scanPend, sentAddrs, orphanScan>>
    /\ TasksOnly

\* lines 161-185: a scanner after its tick found a list other than its
\* current_addresses: it stores the list and sends it; the send queues the
\* list, is suspended while the channel is full, or returns Err when the
\* receiver was dropped, and then the task ends.  A tick that finds the same
\* list, or fails to discover, changes nothing.
ScannerTask ==
    /\ \/ /\ conn
          /\ scanPend = NoPend
          /\ sysAddrs # current
          /\ current' = sysAddrs
          /\ IF scanQ = <<>>
             THEN scanQ' = <<sysAddrs>> /\ UNCHANGED scanPend
             ELSE scanPend' = sysAddrs /\ UNCHANGED scanQ
          /\ UNCHANGED orphanScan
       \/ /\ \E c \in AddrVecs :
                /\ orphanScan[c] > 0
                /\ sysAddrs # c
                /\ orphanScan' = [orphanScan EXCEPT ![c] = @ - 1]
          /\ UNCHANGED <<current, scanQ, scanPend>>
    /\ UNCHANGED <<sysAddrs, conn, hbQ, sentAddrs, orphanHb>>
    /\ TasksOnly

\* lines 213-219: the loop takes a tick and sends a Heartbeat
LoopHeartbeat ==
    /\ conn
    /\ hbQ = 1
    /\ hbQ' = 0
    /\ UNCHANGED <<sysAddrs, conn, current, scanQ, scanPend, sentAddrs, orphanHb, orphanScan>>
    /\ TasksOnly

\* lines 221-230: the loop takes a list and sends it in an UpdateAddresses;
\* a suspended send of the scanner completes
LoopAddressUpdate ==
    /\ conn
    /\ scanQ # <<>>
    /\ sentAddrs' = Head(scanQ)
    /\ scanQ' = IF scanPend = NoPend THEN <<>> ELSE <<scanPend>>
    /\ scanPend' = NoPend
    /\ UNCHANGED <<sysAddrs, conn, hbQ, current, orphanHb, orphanScan>>
    /\ TasksOnly

\* lines 198-209, 215-218, 226-229, 235: the loop breaks and run_agent
\* returns: both receivers are dropped.  The tasks are not told: each goes on
\* until a send of its own fails; a scanner suspended in a send ends at once.
ConnectionEnds ==
    /\ conn
    /\ conn' = FALSE
    /\ hbQ' = 0
    /\ scanQ' = <<>>
    /\ scanPend' = NoPend
    /\ current' = <<>>
    /\ sentAddrs' = <<>>
    /\ orphanHb' = Counted(orphanHb)
    /\ orphanScan' = IF scanPend = NoPend
                     THEN [orphanScan EXCEPT ![current] = Counted(@)]
                     ELSE orphanScan
    /\ UNCHANGED sysAddrs
    /\ TasksOnly

InitTasks ==
    /\ ServerInit
    /\ AgentStart(FALSE, NoArtifact)

NextTasks ==
    \/ TasksSpawn
    \/ AddressesChange
    \/ HeartbeatTask
    \/ ScannerTask
    \/ LoopHeartbeat
    \/ LoopAddressUpdate
    \/ ConnectionEnds

\* the timers fire and the runtime runs every task that can run: a task
\* whose receiver was dropped gets its turn like the others
SpecTasks ==
    /\ InitTasks
    /\ [][NextTasks]_vars
    /\ WF_vars(HeartbeatTask /\ orphanHb' # orphanHb)
    /\ WF_vars(ScannerTask /\ orphanScan' # orphanScan)
    /\ WF_vars(ScannerTask /\ current' # current)
    /\ WF_vars(LoopHeartbeat)
    /\ WF_vars(LoopAddressUpdate)

(***************************************************************************)
(* C32: an UpdateAddresses is sent only when the discovered set of         *)
(* addresses differs from the set sent last on this connection (at first   *)
(* the set of the Register); a scan that yields the same set puts nothing  *)
(* into the channel; and every list the scanner has put into the channel   *)
(* is sent, unless the connection ends first.                              *)
(***************************************************************************)
C32_AddressUpdateOnlyOnChange ==
    /\ [][LoopAddressUpdate => Range(sentAddrs') # Range(sentAddrs)]_vars
    /\ [][(ScannerTask /\ current' # current) => Range(current') # Range(current)]_vars
    /\ \A v \in AddrVecs :
          (conn /\ scanQ # <<>> /\ Head(scanQ) = v) ~> (sentAddrs = v \/ ~conn)

(***************************************************************************)
(* C40: the tasks of a connection that has ended terminate: as long as no  *)
(* new connection is made, the heartbeat tasks and the scanners whose      *)
(* receiver was dropped drain away.                                        *)
(***************************************************************************)
C40_OrphanTasksTerminate ==
    /\ (~conn /\ orphanHb > 0) ~> (orphanHb = 0 \/ conn)
    /\ \A c \in AddrVecs : (~conn /\ orphanScan[c] > 0) ~> (orphanScan[c] = 0 \/ conn)

(***************************************************************************)
(* C34: register_agent_connection(node_id, tx) leaves the registry mapping *)
(* node_id to the given channel whatever entry it had, with every other    *)
(* entry as it was; the registry is a map, so it has one entry per id.     *)
(***************************************************************************)
C34_RegisterLastWriterWins ==
    [][\A s \in Sessions : RRegister(s) =>
            LET id == loc[s].node.id IN
            /\ DOMAIN registry' = DOMAIN registry \cup {id}
            /\ registry'[id] = s
            /\ \A j \in DOMAIN registry \ {id} : registry'[j] = registry[j]]_vars

\* session 2 has registered for the node whose entry held the channel of
\* session 1, which is still open
C34_Witness ==
    \E id \in DOMAIN registry :
        /\ registry[id] = 2
        /\ pc[2] = "r_gen"
        /\ node_id[1] = id
        /\ configsSent[1] = 1
        /\ pc[1] = "idle"
        /\ rxOpen[1]
        /\ dbFails = 0

(***************************************************************************)
(* C35: when no handler and no broadcast is in progress, the last message  *)
(* queued for every session that holds the registry entry of its node      *)
(* carries the listen, peers and allowed_public_keys that the synthesis    *)
(* yields for that node on the directory as it is.                         *)
(***************************************************************************)
C35_QuiescentSessionsHoldFinalConfig ==
    (\A p \in Procs : pc[p] \in {"idle", "cleanup", "closed"}) =>
        LET configs == generate_configs(directory) IN
        \A id \in DOMAIN registry \cap DOMAIN configs :
            LET s == registry[id] IN
            node_id[s] = id =>
                /\ lastEnq[s].type \in {"Config", "Update"}
                /\ lastEnq[s].listen = configs[id].listen
                /\ lastEnq[s].peers = configs[id].peers
                /\ lastEnq[s].allowed_public_keys = configs[id].allowed_public_keys

(***************************************************************************)
(* C36: the handling of a Register ends only with a reply: the handler     *)
(* leaves its Register arm at the send of the Config, the session then     *)
(* being associated with a node, or at the send of the Error.              *)
(***************************************************************************)
C36_RegisterAlwaysReplied ==
    [][\A s \in Sessions :
        LET arm == {"r_lookup", "r_update", "r_add", "r_reget", "r_register", "r_gen",
                    "r_error", "r_config"} IN
        (pc[s] \in arm /\ pc'[s] \notin arm) =>
            \/ pc[s] = "r_config" /\ loc[s].msg.type = "Config" /\ node_id[s] # 0
            \/ pc[s] = "r_error" /\ loc[s].msg.type = "Error"]_vars

(***************************************************************************)
(* C37: a broadcast queues an Update for a session only when the Config of *)
(* the session was queued before.                                          *)
(***************************************************************************)
C37_NoUpdateBeforeConfig ==
    [][\A p \in Procs : \A id \in DOMAIN registry :
        (BcSendTo(p, id) /\ SendOk(registry[id])) => configsSent[registry[id]] >= 1]_vars

(***************************************************************************)
(* C38: a broadcast sends the empty Update to an entry, and removes an     *)
(* entry whose send returned Ok, only when the directory has no record of  *)
(* the entry's node.                                                       *)
(***************************************************************************)
C38_ZeroUpdateOnlyForAbsentNode ==
    [][\A p \in Procs :
        /\ \A id \in DOMAIN registry :
              (BcSendTo(p, id) /\ id \notin DOMAIN bc[p].configs) =>
                    \A i \in 1..Len(directory) : directory[i].id # id
        /\ BcFinish(p) =>
              \A id \in bc[p].failed \ bc[p].sendErr :
                    \A i \in 1..Len(directory) : directory[i].id # id]_vars

====
